---- MODULE Spec2Model ----
(***************************************************************************)
(* Model of the personal finance backend: the budget-alert decision engine *)
(* and notification dispatcher (backend/app/alerter.py), the forecast      *)
(* pipeline with its plausibility review (backend/app/forecaster.py), the  *)
(* batch categorizer (backend/app/categorizer.py), the CSV parser          *)
(* (backend/app/parser.py) and the alert check of a user's budgets         *)
(* (check_alerts in backend/app/main.py).                                  *)
(*                                                                         *)
(* A text the code inspects character by character (an amount, the         *)
(* completion's answer) is a sequence of characters or tokens.  read_csv   *)
(* is taken to give a rectangular frame with the default 0-based index,    *)
(* numbers for numeric fields and NaN for empty amount and description     *)
(* fields; a date field always holds a text.                               *)
(*                                                                         *)
(* Amounts are whole currency units.  The percentage of the budget used is *)
(* kept as an exact fraction num/den, so a comparison pct_used >= k is the *)
(* comparison num >= k * den; the code computes the same quotient in       *)
(* binary floating point.  A value rounded to one decimal place is kept as *)
(* an integer number of tenths (112.0 is 1120).  The date of a transaction *)
(* is a day number with an hour of the day.                                *)
(***************************************************************************)
EXTENDS Integers, Sequences, FiniteSets, TLC

VARIABLES
    apc,            \* position of the alert evaluation / dispatch
    spending,       \* check_spending_alert argument
    budget_limit,   \* check_spending_alert argument
    budget_pct,     \* check_spending_alert argument
    threshold,      \* check_spending_alert argument
    decision,       \* dict returned by check_spending_alert
    service,        \* AlertService: [twilio, resend] client handles
    config,         \* AlertConfig passed to send_spending_alert
    alert,          \* SpendingAlert passed to send_spending_alert
    results,        \* send_spending_alert's local list `results`
    calls,          \* invocations of the channels' send primitives, in order
    returned,       \* the list send_spending_alert returned to its caller
    raised,         \* exception that escaped to the caller, or "none"
    fpc,            \* position of the forecast pipeline
    entry,          \* "generate_forecast", or "stages": the stage functions
                    \* called in the same order on TransactionCreate records
    transactions,   \* the caller's transaction records
    category_filter,\* the category argument
    months_ahead,   \* the months_ahead argument
    txs,            \* the converted transaction objects
    df,             \* the daily series of prepare_prophet_data
    forecast,       \* the forecast dict
    engine_forecast,\* the forecast dict as forecast_with_prophet returned it
    history_summary,\* the dict of calculate_history_summary
    oracle,         \* what the completion call did
    stages,         \* the stages run so far, in order
    fraised,        \* exception that escaped the pipeline, or "none"
    cpc,            \* position of Categorizer.categorize_batch
    batch,          \* categorize_batch's argument `transactions`
    max_concurrent, \* categorize_batch's argument max_concurrent
    semaphore,      \* the value of asyncio.Semaphore(max_concurrent)
    unit,           \* the categorize_with_limit coroutines, by position
    gathered,       \* the list asyncio.gather builds, by position
    processed,      \* the list categorize_batch builds and returns
    craised,        \* exception that escaped categorize_batch, or "none"
    ppc,            \* position of the CSVParser call
    pentry,         \* the CSVParser method the caller entered
    raw_amount,     \* parse_amount's argument
    parsed_amount,  \* what parse_amount returned
    columns,        \* the columns of the data frame, in order
    column_map,     \* the dict detect_columns returned
    rows,           \* the rows of the data frame, in order
    mapping,        \* parse_with_mapping's argument column_mapping
    idx,            \* the row df.iterrows() yields next (0-based)
    parsed_txs,     \* the local list `transactions` of parse
    errors,         \* the local list `errors` of parse
    preturned,      \* the list parse / parse_with_mapping returned, or Null
    praised,        \* exception that escaped the CSVParser call, or "none"
    epc,            \* position of the check_alerts request handler
    user,           \* the user's row of settings
    budgets,        \* the user's budget rows, in order
    user_txs,       \* the user's transaction rows
    alert_service,  \* the AlertService of the request
    evaluated,      \* per budget handled: its decision and its results
    alerts_sent,    \* the local list alerts_sent
    ereturned,      \* the dict check_alerts returned, or Null
    eraised         \* exception that escaped check_alerts, or "none"

alertVars == <<apc, spending, budget_limit, budget_pct, threshold, decision,
               service, config, alert, results, calls, returned, raised>>

forecastVars == <<fpc, entry, transactions, category_filter, months_ahead, txs,
                  df, forecast, engine_forecast, history_summary, oracle,
                  stages, fraised>>

categorizerVars == <<cpc, batch, max_concurrent, semaphore, unit, gathered,
                     processed, craised>>

parserVars == <<ppc, pentry, raw_amount, parsed_amount, columns, column_map,
                rows, mapping, idx, parsed_txs, errors, preturned, praised>>

endpointVars == <<epc, user, budgets, user_txs, alert_service, evaluated,
                  alerts_sent, ereturned, eraised>>

vars == <<alertVars, forecastVars, categorizerVars, parserVars, endpointVars>>

-----------------------------------------------------------------------------
(* Values shared by the components *)

None == "None"

Null == [null |-> TRUE]

\* Python truthiness of an optional string: None and "" are falsy.
Truthy(s) == s # None /\ s # ""

\* No batch categorization is running.
CategorizerIdle ==
    /\ cpc = "idle"
    /\ batch = <<>>
    /\ max_concurrent = 1
    /\ semaphore = 0
    /\ unit = <<>>
    /\ gathered = <<>>
    /\ processed = <<>>
    /\ craised = "none"

\* No CSVParser method is running.
ParserIdle ==
    /\ ppc = "idle"
    /\ pentry = None
    /\ raw_amount = Null
    /\ parsed_amount = Null
    /\ columns = <<>>
    /\ column_map = Null
    /\ rows = <<>>
    /\ mapping = Null
    /\ idx = 0
    /\ parsed_txs = <<>>
    /\ errors = <<>>
    /\ preturned = Null
    /\ praised = "none"

\* No check_alerts request is being handled.
EndpointIdle ==
    /\ epc = "idle"
    /\ user = Null
    /\ budgets = <<>>
    /\ user_txs = <<>>
    /\ alert_service = Null
    /\ evaluated = <<>>
    /\ alerts_sent = <<>>
    /\ ereturned = Null
    /\ eraised = "none"

-----------------------------------------------------------------------------
(* Alert decision engine: check_spending_alert *)

MaxSpendUnits == 18

CriticalPct == 150

HighPct == 125

Spendings == {500 * k : k \in 0..MaxSpendUnits} \cup {100, 5498, 5600}

Limits == {-5000, 0, 5000, 10000}

BudgetPcts == {100, 110, 200}

Thresholds == {1000, 5000, 10000}

\* a / b as the interpreter evaluates it: division by zero raises.
Divide(a, b) ==
    IF b = 0 THEN [raised |-> "ZeroDivisionError", num |-> 0, den |-> 1]
    ELSE IF b > 0 THEN [raised |-> "none", num |-> a, den |-> b]
    ELSE [raised |-> "none", num |-> -a, den |-> -b]

PctUsedUnguarded(s, l) ==
    LET q == Divide(s, l) IN [q EXCEPT !.num = q.num * 100]

\* pct_used = (spending / budget_limit * 100) if budget_limit > 0 else 0
PctUsed(s, l) ==
    IF l > 0 THEN LET q == Divide(s, l) IN [q EXCEPT !.num = q.num * 100]
    ELSE [raised |-> "none", num |-> 0, den |-> 1]

PctGT(p, k) == p.num > k * p.den

\* pct_used >= k for the fraction p
PctGE(p, k) == p.num >= k * p.den

\* round(x, 1) of the non-negative fraction p, in tenths, ties to even
Round1(p) ==
    LET n == p.num * 10
        q == n \div p.den
        r == n % p.den
    IN  IF 2 * r > p.den THEN q + 1
        ELSE IF 2 * r < p.den THEN q
        ELSE IF q % 2 = 0 THEN q ELSE q + 1

PriorityNoEarlyReturn(p, over_budget, over_threshold) ==
    IF PctGE(p, CriticalPct) THEN "critical"
    ELSE IF PctGE(p, HighPct) THEN "high"
    ELSE IF over_budget THEN "medium"
    ELSE "low"

PriorityNoCritical(p, over_budget, over_threshold) ==
    IF PctGE(p, HighPct) THEN "high"
    ELSE IF over_budget THEN "medium"
    ELSE IF over_threshold THEN "low"
    ELSE "none"

PriorityThresholdFirst(p, over_budget, over_threshold) ==
    IF over_threshold THEN "low"
    ELSE IF PctGE(p, CriticalPct) THEN "critical"
    ELSE IF PctGE(p, HighPct) THEN "high"
    ELSE IF over_budget THEN "medium"
    ELSE "none"

\* the if / elif cascade that determines the priority
Priority(p, over_budget, over_threshold) ==
    IF PctGE(p, CriticalPct) THEN "critical"
    ELSE IF PctGE(p, HighPct) THEN "high"
    ELSE IF over_budget THEN "medium"
    ELSE IF over_threshold THEN "low"
    ELSE "none"

NoAlertDecisionWithPct(pct_tenths) ==
    [should_alert |-> FALSE, pct_used |-> pct_tenths]

\* return {"should_alert": False}
NoAlertDecision(pct_tenths) == [should_alert |-> FALSE]

\* [raised, value]: the exception check_spending_alert raises, or its dict
check_spending_alert(s, l, pct, thr) ==
    LET p == PctUsed(s, l) IN
    IF p.raised # "none" THEN [raised |-> p.raised, value |-> Null]
    ELSE
        LET over_budget == PctGE(p, pct)
            over_threshold == s >= thr
            priority == Priority(p, over_budget, over_threshold)
        IN  IF priority = "none"
            THEN [raised |-> "none", value |-> NoAlertDecision(Round1(p))]
            ELSE [raised |-> "none",
                  value |-> [should_alert |-> TRUE,
                             priority |-> priority,
                             pct_used |-> Round1(p),
                             over_budget |-> over_budget,
                             over_threshold |-> over_threshold]]

-----------------------------------------------------------------------------
(* Notification dispatcher: TwilioClient, ResendClient, AlertService *)

\* A client handle is None (not supplied), or a client whose _enabled flag
\* is true ("enabled") or false ("disabled").
Clients == {None, "enabled", "disabled"}

Phones == {None, "", "+919876543210"}

Emails == {None, "user@example.com"}

\* what the provider's API call does once it is reached
ProviderOutcomes == {"ok", "raise"}

Configs ==
    [sms_enabled : BOOLEAN, email_enabled : BOOLEAN,
     phone : Phones, email : Emails]

\* f"{x:.0f}" of a value held in tenths: nearest integer, ties to even
Format0(tenths) ==
    LET q == tenths \div 10
        r == tenths % 10
    IN  IF r > 5 THEN q + 1
        ELSE IF r < 5 THEN q
        ELSE IF q % 2 = 0 THEN q ELSE q + 1

build_sms_message(a) ==
    [status |-> IF a.is_over_budget THEN "OVER BUDGET" ELSE "High Spending",
     category |-> a.category,
     spent |-> a.current_spending,
     budget |-> a.budget_limit,
     used |-> Format0(a.budget_pct_used),
     trending_up |-> a.forecast_trend = "increasing"]

build_email_content(a) ==
    [subject |-> [category |-> a.category, used |-> Format0(a.budget_pct_used)],
     html |-> [category |-> a.category,
               spent |-> a.current_spending,
               budget |-> a.budget_limit,
               used |-> a.budget_pct_used,
               status |-> IF a.is_over_budget THEN "Over Budget" ELSE "Normal",
               trending_up |-> a.forecast_trend = "increasing"],
     text |-> [category |-> a.category,
               spent |-> a.current_spending,
               budget |-> a.budget_limit,
               used |-> a.budget_pct_used,
               status |-> IF a.is_over_budget THEN "Over Budget" ELSE "Normal"]]

send_sms_uncaught(client, provider) ==
    IF client # "enabled"
    THEN [raised |-> "none",
          value |-> [success |-> FALSE, error |-> "Twilio not configured"]]
    ELSE IF provider = "raise"
    THEN [raised |-> "TwilioRestException", value |-> Null]
    ELSE [raised |-> "none",
          value |-> [success |-> TRUE, message_sid |-> "SM1", status |-> "queued"]]

\* TwilioClient.send_sms: [raised, value]
send_sms(client, provider) ==
    IF client # "enabled"
    THEN [raised |-> "none",
          value |-> [success |-> FALSE, error |-> "Twilio not configured"]]
    ELSE IF provider = "raise"
    THEN [raised |-> "none",
          value |-> [success |-> FALSE, error |-> "TwilioRestException"]]
    ELSE [raised |-> "none",
          value |-> [success |-> TRUE, message_sid |-> "SM1", status |-> "queued"]]

\* ResendClient.send_email: [raised, value]
send_email(client, provider) ==
    IF client # "enabled"
    THEN [raised |-> "none",
          value |-> [success |-> FALSE, error |-> "Resend not configured"]]
    ELSE IF provider = "raise"
    THEN [raised |-> "none",
          value |-> [success |-> FALSE, error |-> "ResendError"]]
    ELSE [raised |-> "none", value |-> [success |-> TRUE, id |-> "email-1"]]

\* result["channel"] = channel
Tagged(result, channel) ==
    [k \in DOMAIN result \cup {"channel"} |->
        IF k = "channel" THEN channel ELSE result[k]]

SmsGateNoClient(cfg, svc) == cfg.sms_enabled /\ Truthy(cfg.phone)

\* if config.sms_enabled and config.phone and self.twilio
SmsGate(cfg, svc) ==
    cfg.sms_enabled /\ Truthy(cfg.phone) /\ svc.twilio # None

\* if config.email_enabled and config.email and self.resend
EmailGate(cfg, svc) ==
    cfg.email_enabled /\ Truthy(cfg.email) /\ svc.resend # None

\* The SMS block of send_spending_alert: the updated results, the send
\* primitive calls made, and the exception that escapes, if any.
SmsBlock(cfg, svc, a, res, provider) ==
    IF SmsGate(cfg, svc)
    THEN LET message == build_sms_message(a)
             r == send_sms(svc.twilio, provider)
         IN  [raised |-> r.raised,
              results |-> IF r.raised = "none"
                          THEN Append(res, Tagged(r.value, "sms")) ELSE res,
              calls |-> <<[channel |-> "sms", to |-> cfg.phone,
                           payload |-> message, provider |-> provider]>>]
    ELSE [raised |-> "none", results |-> res, calls |-> <<>>]

EmailBlockStopsAfterFailure(cfg, svc, a, res, provider) ==
    IF EmailGate(cfg, svc) /\ \A i \in 1..Len(res) : res[i].success
    THEN LET r == send_email(svc.resend, provider)
         IN  [raised |-> r.raised,
              results |-> Append(res, Tagged(r.value, "email")),
              calls |-> <<[channel |-> "email", to |-> cfg.email,
                           payload |-> build_email_content(a),
                           provider |-> provider]>>]
    ELSE [raised |-> "none", results |-> res, calls |-> <<>>]

EmailBlockPrepends(cfg, svc, a, res, provider) ==
    IF EmailGate(cfg, svc)
    THEN LET r == send_email(svc.resend, provider)
         IN  [raised |-> r.raised,
              results |-> <<Tagged(r.value, "email")>> \o res,
              calls |-> <<[channel |-> "email", to |-> cfg.email,
                           payload |-> build_email_content(a),
                           provider |-> provider]>>]
    ELSE [raised |-> "none", results |-> res, calls |-> <<>>]

\* The email block of send_spending_alert.
EmailBlock(cfg, svc, a, res, provider) ==
    IF EmailGate(cfg, svc)
    THEN LET content == build_email_content(a)
             r == send_email(svc.resend, provider)
         IN  [raised |-> r.raised,
              results |-> IF r.raised = "none"
                          THEN Append(res, Tagged(r.value, "email")) ELSE res,
              calls |-> <<[channel |-> "email", to |-> cfg.email,
                           payload |-> content, provider |-> provider]>>]
    ELSE [raised |-> "none", results |-> res, calls |-> <<>>]

-----------------------------------------------------------------------------
(* Alert evaluation and dispatch as a state machine *)

\* The forecast pipeline is not running.
ForecastIdle ==
    /\ fpc = "idle"
    /\ entry = None
    /\ transactions = <<>>
    /\ category_filter = None
    /\ months_ahead = 1
    /\ txs = <<>>
    /\ df = <<>>
    /\ forecast = Null
    /\ engine_forecast = Null
    /\ history_summary = Null
    /\ oracle = Null
    /\ stages = <<>>
    /\ fraised = "none"

AlertInit ==
    /\ apc = "check"
    /\ spending \in Spendings
    /\ budget_limit \in Limits
    /\ budget_pct \in BudgetPcts
    /\ threshold \in Thresholds
    /\ service \in [twilio : Clients, resend : Clients]
    /\ decision = Null
    /\ config = Null
    /\ alert = Null
    /\ results = <<>>
    /\ calls = <<>>
    /\ returned = Null
    /\ raised = "none"
    /\ ForecastIdle
    /\ CategorizerIdle
    /\ ParserIdle
    /\ EndpointIdle

\* A caller evaluates check_spending_alert on its arguments.
CheckSpendingAlert ==
    /\ apc = "check"
    /\ LET r == check_spending_alert(spending, budget_limit, budget_pct, threshold)
       IN  /\ raised' = r.raised
           /\ decision' = r.value
           /\ apc' = IF r.raised = "none" THEN "checked" ELSE "failed"
    /\ UNCHANGED <<spending, budget_limit, budget_pct, threshold, service,
                   config, alert, results, calls, returned>>
    /\ UNCHANGED <<forecastVars, categorizerVars, parserVars, endpointVars>>

\* The decision is no alert: nothing is dispatched.
NoAlert ==
    /\ apc = "checked"
    /\ ~decision.should_alert
    /\ apc' = "done"
    /\ UNCHANGED <<spending, budget_limit, budget_pct, threshold, decision,
                   service, config, alert, results, calls, returned, raised>>
    /\ UNCHANGED <<forecastVars, categorizerVars, parserVars, endpointVars>>

\* The caller wraps an alerting decision in a SpendingAlert, takes the
\* user's AlertConfig and enters send_spending_alert (results = []).
BeginSendSpendingAlert ==
    /\ apc = "checked"
    /\ decision.should_alert
    /\ \E cfg \in Configs :
          config' = cfg
    /\ alert' = [category |-> "Groceries",
                 current_spending |-> spending,
                 budget_limit |-> budget_limit,
                 budget_pct_used |-> decision.pct_used,
                 is_over_budget |-> decision.over_budget,
                 is_over_threshold |-> decision.over_threshold,
                 forecast_trend |-> None]
    /\ results' = <<>>
    /\ apc' = "sms"
    /\ UNCHANGED <<spending, budget_limit, budget_pct, threshold, decision,
                   service, calls, returned, raised>>
    /\ UNCHANGED <<forecastVars, categorizerVars, parserVars, endpointVars>>

\* send_spending_alert up to the end of its SMS block.
SendAlertSms ==
    /\ apc = "sms"
    /\ \E provider \in ProviderOutcomes :
          LET b == SmsBlock(config, service, alert, results, provider)
          IN  /\ results' = b.results
              /\ calls' = calls \o b.calls
              /\ raised' = b.raised
              /\ apc' = IF b.raised = "none" THEN "email" ELSE "failed"
    /\ UNCHANGED <<spending, budget_limit, budget_pct, threshold, decision,
                   service, config, alert, returned>>
    /\ UNCHANGED <<forecastVars, categorizerVars, parserVars, endpointVars>>

\* send_spending_alert's email block.
SendAlertEmail ==
    /\ apc = "email"
    /\ \E provider \in ProviderOutcomes :
          LET b == EmailBlock(config, service, alert, results, provider)
          IN  /\ results' = b.results
              /\ calls' = calls \o b.calls
              /\ raised' = b.raised
              /\ apc' = IF b.raised = "none" THEN "return" ELSE "failed"
    /\ UNCHANGED <<spending, budget_limit, budget_pct, threshold, decision,
                   service, config, alert, returned>>
    /\ UNCHANGED <<forecastVars, categorizerVars, parserVars, endpointVars>>

\* return results
SendAlertReturn ==
    /\ apc = "return"
    /\ returned' = results
    /\ apc' = "done"
    /\ UNCHANGED <<spending, budget_limit, budget_pct, threshold, decision,
                   service, config, alert, results, calls, raised>>
    /\ UNCHANGED <<forecastVars, categorizerVars, parserVars, endpointVars>>

AlertNext ==
    \/ CheckSpendingAlert
    \/ NoAlert
    \/ BeginSendSpendingAlert
    \/ SendAlertSms
    \/ SendAlertEmail
    \/ SendAlertReturn

SpecAlert == AlertInit /\ [][AlertNext]_vars

-----------------------------------------------------------------------------
(* Properties of the alert decision engine *)

Evaluated == apc \notin {"check", "failed"}

InputsAre(s, l, pct, thr) ==
    spending = s /\ budget_limit = l /\ budget_pct = pct /\ threshold = thr

TierIs(tier) == decision.should_alert /\ decision.priority = tier

\* pct_used >= k, stated on the arguments
UsedAtLeast(k) == budget_limit > 0 /\ spending * 100 >= k * budget_limit

\* C1: check_spending_alert picks the tier by the first matching test in the
\* order pct_used >= 150 (critical), pct_used >= 125 (high), over_budget
\* (medium), over_threshold (low), else no alert; the five examples of the
\* specification get critical, high, medium, low and no alert.
C1_TierOrder ==
    Evaluated =>
        /\ IF UsedAtLeast(150) THEN TierIs("critical")
           ELSE IF UsedAtLeast(125) THEN TierIs("high")
           ELSE IF UsedAtLeast(budget_pct) THEN TierIs("medium")
           ELSE IF spending >= threshold THEN TierIs("low")
           ELSE ~decision.should_alert
        /\ InputsAre(9000, 5000, 110, 5000) => TierIs("critical")
        /\ InputsAre(7000, 5000, 110, 5000) => TierIs("high")
        /\ InputsAre(5600, 5000, 110, 5000) => TierIs("medium")
        /\ InputsAre(5500, 10000, 110, 5000) => TierIs("low")
        /\ InputsAre(3000, 5000, 110, 5000) => ~decision.should_alert

\* Spending at 150% of the limit and over the absolute threshold, with the
\* budget percentage at 200: every test but the third matches.
C1_Witness ==
    /\ apc = "checked"
    /\ InputsAre(7500, 5000, 200, 5000)
    /\ TierIs("critical")
    /\ ~decision.over_budget
    /\ decision.over_threshold

\* C2 as stated: with budget_limit = 0 the call does not raise and, for
\* (100, 0, 110, 5000), the returned decision has pct_used = 0.
C2_ReturnedPctUsedIsZero ==
    (Evaluated /\ InputsAre(100, 0, 110, 5000)) =>
        /\ raised = "none"
        /\ "pct_used" \in DOMAIN decision
        /\ decision.pct_used = 0

\* C2 (amended): with budget_limit not positive check_spending_alert never
\* raises and takes pct_used as 0: the decision is not over budget, an
\* alerting decision reports pct_used = 0, and a no-alert decision, the one
\* of (100, 0, 110, 5000) included, carries should_alert = false only.
C2_ZeroBudgetGuard ==
    budget_limit <= 0 =>
        /\ raised = "none"
        /\ apc # "failed"
        /\ Evaluated =>
            /\ decision.should_alert =>
                  /\ decision.pct_used = 0
                  /\ ~decision.over_budget
                  /\ decision.priority = "low"
            /\ ~decision.should_alert => decision = [should_alert |-> FALSE]
            /\ InputsAre(100, 0, 110, 5000) => decision = [should_alert |-> FALSE]

C2_Witness ==
    /\ apc = "checked"
    /\ budget_limit = 0
    /\ spending = 5000
    /\ decision.should_alert
    /\ decision.pct_used = 0

-----------------------------------------------------------------------------
(* Properties of the notification dispatcher *)

\* send_spending_alert has passed its SMS block / its email block
PastSmsBlock == apc \in {"email", "return"} \/ (apc = "done" /\ alert # Null)

PastEmailBlock == apc = "return" \/ (apc = "done" /\ alert # Null)

CallsOn(ch) == {i \in 1..Len(calls) : calls[i].channel = ch}

ResultsOn(ch) == {i \in 1..Len(results) : results[i].channel = ch}

SmsConditions ==
    config.sms_enabled /\ config.phone \notin {None, ""} /\ service.twilio # None

EmailConditions ==
    config.email_enabled /\ config.email \notin {None, ""} /\ service.resend # None

\* C3: a channel's send primitive is invoked, and a result entry added for
\* it, if and only if the channel is enabled, its destination is configured
\* and its client handle was supplied; otherwise neither happens.
C3_AttemptedIffGated ==
    /\ PastSmsBlock =>
          /\ Cardinality(CallsOn("sms")) = (IF SmsConditions THEN 1 ELSE 0)
          /\ Cardinality(ResultsOn("sms")) = (IF SmsConditions THEN 1 ELSE 0)
    /\ PastEmailBlock =>
          /\ Cardinality(CallsOn("email")) = (IF EmailConditions THEN 1 ELSE 0)
          /\ Cardinality(ResultsOn("email")) = (IF EmailConditions THEN 1 ELSE 0)
    /\ ~PastSmsBlock => calls = <<>> /\ results = <<>>

\* SMS enabled with a phone number but no Twilio handle: SMS is skipped,
\* email is sent.
C3_Witness ==
    /\ apc = "done"
    /\ alert # Null
    /\ config.sms_enabled
    /\ config.phone = "+919876543210"
    /\ service.twilio = None
    /\ Len(calls) = 1
    /\ calls[1].channel = "email"
    /\ Len(returned) = 1

\* C4: the returned list holds one entry per attempted channel, tagged with
\* its channel, in evaluation order (SMS before email); with only email
\* enabled and configured it is exactly one entry with channel "email".
C4_ResultOrder ==
    (apc = "done" /\ alert # Null) =>
        /\ Len(returned) = Len(calls)
        /\ \A i \in 1..Len(returned) : returned[i].channel = calls[i].channel
        /\ \A i, j \in 1..Len(returned) :
              (returned[i].channel = "sms" /\ returned[j].channel = "email") => i < j
        /\ (SmsConditions /\ EmailConditions) =>
              /\ Len(returned) = 2
              /\ returned[1].channel = "sms"
              /\ returned[2].channel = "email"
        /\ (EmailConditions /\ ~config.sms_enabled /\ config.phone = None) =>
              /\ Len(returned) = 1
              /\ returned[1].channel = "email"

C4_Witness ==
    /\ apc = "done"
    /\ alert # Null
    /\ Len(returned) = 2
    /\ returned[1].channel = "sms"
    /\ returned[2].channel = "email"

\* C5: when the SMS send fails the failure is recorded as an entry
\* {success: false, channel: "sms", error} and the email send is still
\* attempted; its payload is the one built from the alert and its outcome
\* is the one the email client gives, whatever the SMS outcome was.
C5_ChannelIsolation ==
    (PastEmailBlock /\ SmsConditions /\ EmailConditions) =>
        /\ Len(results) = 2
        /\ Len(calls) = 2
        /\ ~results[1].success =>
              /\ results[1].channel = "sms"
              /\ "error" \in DOMAIN results[1]
        /\ calls[2].channel = "email"
        /\ calls[2].to = config.email
        /\ calls[2].payload = build_email_content(alert)
        /\ results[2] = Tagged(send_email(service.resend, calls[2].provider).value,
                                "email")

\* The SMS provider raised, the email went out.
C5_Witness ==
    /\ apc = "done"
    /\ alert # Null
    /\ Len(returned) = 2
    /\ calls[1].provider = "raise"
    /\ ~returned[1].success
    /\ returned[1].error = "TwilioRestException"
    /\ returned[2].success

\* C6: check_spending_alert and send_spending_alert never throw to the
\* caller, whatever the providers' sends do: a delivery error is recorded in
\* the list, which is returned with at most one entry per channel.
C6_NeverThrows ==
    /\ raised = "none"
    /\ apc # "failed"
    /\ (apc = "done" /\ alert # Null) =>
          /\ returned = results
          /\ Len(returned) <= 2
          /\ \A i \in 1..Len(returned) :
                (calls[i].provider = "raise" /\ service[IF calls[i].channel = "sms"
                                                        THEN "twilio" ELSE "resend"]
                                                  = "enabled")
                    => ~returned[i].success

\* Both providers raised; the caller gets two failure entries.
C6_Witness ==
    /\ apc = "done"
    /\ alert # Null
    /\ Len(returned) = 2
    /\ service.twilio = "enabled"
    /\ service.resend = "enabled"
    /\ calls[1].provider = "raise"
    /\ calls[2].provider = "raise"
    /\ ~returned[1].success
    /\ ~returned[2].success

-----------------------------------------------------------------------------
(* Forecast pipeline: data of backend/app/forecaster.py *)

MaxTx == 2

MaxDay == 3

Days == 1..MaxDay

Amounts == {100, 250}

TxCategories == {"Groceries", "Dining"}

\* tx.date, a datetime: a day number and the hour of the day
DateTimes == [day : Days, hour : {0, 18}]

\* A transaction record.  Income records are drawn in the first category
\* only; the records made at 18:00 are the expenses of the first category,
\* and they are those of the larger amount.
TxRecords ==
    {t \in [date : DateTimes, description : {"Test"}, amount : Amounts,
            category : TxCategories, is_income : BOOLEAN] :
        /\ t.is_income => t.category = "Groceries"
        /\ t.date.hour = 18 => (t.category = "Groceries" /\ ~t.is_income)
        /\ t.date.hour = 18 <=> t.amount = 250}

TxLists == UNION {[1..n -> TxRecords] : n \in 0..MaxTx}

CategoryFilters == {None, "Groceries"}

MonthsAheadValues == {1, 12}

\* Required fields (no default) of the pydantic models.
RequiredFields(cls) ==
    IF cls = "TransactionCreate" THEN {"date", "description", "amount"}
    ELSE {"date", "description", "amount", "id", "user_id", "created_at"}

\* Keyword arguments generate_forecast passes to the model constructor.
ConvertKwargs == {"date", "description", "amount", "category", "is_income"}

\* The model class generate_forecast instantiates.
ConvertClass == "Transaction"

\* txs = [Transaction(...) for t in transactions]: pydantic raises a
\* ValidationError when a required field is not given.
ConvertRecords(ts) ==
    IF ts # <<>> /\ RequiredFields(ConvertClass) \ ConvertKwargs # {}
    THEN [raised |-> "ValidationError", value |-> <<>>]
    ELSE [raised |-> "none", value |-> ts]

RECURSIVE FilterTransactionsKeepsIncome(_, _, _)
FilterTransactionsKeepsIncome(s, byCat, cat) ==
    IF s = <<>> THEN <<>>
    ELSE LET h == Head(s)
             rest == FilterTransactionsKeepsIncome(Tail(s), byCat, cat)
         IN  IF ~byCat \/ h.category = cat THEN <<h>> \o rest ELSE rest

RECURSIVE FilterTransactions(_, _, _)
\* [t for t in s if keep], for keep(t) == (~byCat \/ t.category = cat) /\ ~t.is_income
FilterTransactions(s, byCat, cat) ==
    IF s = <<>> THEN <<>>
    ELSE LET h == Head(s)
             rest == FilterTransactions(Tail(s), byCat, cat)
         IN  IF (~byCat \/ h.category = cat) /\ ~h.is_income
             THEN <<h>> \o rest ELSE rest

RECURSIVE SumOn(_, _)
\* groupby("ds")["y"].sum() for the day d, ds being tx.date.date()
SumOn(s, d) ==
    IF s = <<>> THEN 0
    ELSE (IF Head(s).date.day = d THEN Head(s).amount ELSE 0) + SumOn(Tail(s), d)

\* the values of tx.date.date()
SeqDays(s) == {s[i].date.day : i \in 1..Len(s)}

MinOf(S) == CHOOSE x \in S : \A y \in S : x <= y

MaxOf(S) == CHOOSE x \in S : \A y \in S : x >= y

prepare_prophet_data_no_fill(ts, cat) ==
    LET kept == FilterTransactions(ts, Truthy(cat), cat)
        RECURSIVE Ascending(_)
        Ascending(S) ==
            IF S = {} THEN <<>>
            ELSE <<[ds |-> MinOf(S), y |-> SumOn(kept, MinOf(S))]>>
                 \o Ascending(S \ {MinOf(S)})
    IN  IF kept = <<>>
        THEN [raised |-> "ValueError: No transactions found for forecasting",
              value |-> <<>>]
        ELSE [raised |-> "none", value |-> Ascending(SeqDays(kept))]

\* prepare_prophet_data: [raised, value], value the daily series
prepare_prophet_data(ts, cat) ==
    LET kept == FilterTransactions(ts, Truthy(cat), cat) IN
    IF kept = <<>>
    THEN [raised |-> "ValueError: No transactions found for forecasting",
          value |-> <<>>]
    ELSE LET lo == MinOf(SeqDays(kept))
             hi == MaxOf(SeqDays(kept))
         IN  [raised |-> "none",
              value |-> [i \in 1..(hi - lo + 1) |->
                            [ds |-> lo + i - 1, y |-> SumOn(kept, lo + i - 1)]]]

\* Values the fitted model may predict for the last day of the horizon.
Predictions == {-50, 1200}

\* model.make_future_dataframe(periods): the days of the history followed
\* by the periods days after its last day
\* len(frame): the number of rows of a frame
Rows(frame) == Cardinality(DOMAIN frame)

make_future_dataframe(series, periods) ==
    [i \in 1..(Len(series) + periods) |-> series[1].ds + i - 1]

\* model.predict(future): one row per day of future.  The frames drawn
\* rise by one unit a day and reach yhat on the last day.
Predict(future, yhat) ==
    LET n == Rows(future) IN
    [i \in 1..n |->
        LET y == yhat - (n - i) IN
        [ds |-> future[i], yhat |-> y, yhat_lower |-> y - 300,
         yhat_upper |-> y + 300, trend |-> y - 20, weekly |-> 15, yearly |-> 5]]

FirstRow(frame) == frame[1]

\* forecast.iloc[-1]
LastRow(frame) == frame[Rows(frame)]

\* forecast_with_prophet: the model cannot be fitted on fewer than two
\* rows; otherwise the result is read off the last row of the prediction.
forecast_with_prophet(series, periods, cat, yhat) ==
    IF Len(series) < 2
    THEN [raised |-> "ValueError: Dataframe has less than 2 non-NaN rows",
          value |-> Null]
    ELSE LET prediction == Predict(make_future_dataframe(series, periods), yhat)
             last_row == LastRow(prediction)
         IN  [raised |-> "none",
              value |-> [category |-> cat,
                         forecast_date |-> last_row.ds,
                         predicted_amount |-> [t |-> "num", v |-> last_row.yhat],
                         confidence_lower |-> last_row.yhat_lower,
                         confidence_upper |-> last_row.yhat_upper,
                         trend |-> last_row.trend,
                         weekly_seasonality |-> last_row.weekly,
                         yearly_seasonality |-> last_row.yearly,
                         forecast_df |-> IF periods + 7 < Rows(prediction)
                                         THEN periods + 7 ELSE Rows(prediction)]]

RECURSIVE SumAmounts(_)
SumAmounts(s) == IF s = <<>> THEN 0 ELSE Head(s).amount + SumAmounts(Tail(s))

RECURSIVE SelectHistory(_, _)
\* the filter of calculate_history_summary: by category when one is given
\* (income included), otherwise the non-income transactions
SelectHistory(s, cat) ==
    IF s = <<>> THEN <<>>
    ELSE LET h == Head(s)
             rest == SelectHistory(Tail(s), cat)
         IN  IF (IF Truthy(cat) THEN h.category = cat ELSE ~h.is_income)
             THEN <<h>> \o rest ELSE rest

\* round(n / d, 2) for n >= 0, d > 0, in hundredths, ties to even
Round2(n, d) ==
    LET q == (n * 100) \div d
        r == (n * 100) % d
    IN  IF 2 * r > d THEN q + 1
        ELSE IF 2 * r < d THEN q
        ELSE IF q % 2 = 0 THEN q ELSE q + 1

\* calculate_history_summary; averages are in hundredths
calculate_history_summary(ts, cat) ==
    LET kept == SelectHistory(ts, cat) IN
    IF kept = <<>>
    THEN [count |-> 0, total |-> 0, avg_daily |-> 0, avg_monthly |-> 0]
    ELSE IF Len(kept) < 2
    THEN [count |-> Len(kept), total |-> SumAmounts(kept),
          avg_daily |-> 0, avg_monthly |-> 0]
    ELSE LET hours == {24 * kept[i].date.day + kept[i].date.hour : i \in 1..Len(kept)}
             span == (MaxOf(hours) - MinOf(hours)) \div 24
             date_range == IF span = 0 THEN 1 ELSE span
             amounts == {kept[i].amount : i \in 1..Len(kept)}
         IN  [count |-> Len(kept),
              total |-> SumAmounts(kept),
              avg_daily |-> Round2(SumAmounts(kept), date_range),
              avg_monthly |-> Round2(SumAmounts(kept) * 30, date_range),
              max_single |-> MaxOf(amounts),
              min_single |-> MinOf(amounts)]

-----------------------------------------------------------------------------
(* Plausibility review: sanity_check_forecast *)

\* JSON values, tagged with their type; "absent" is a key the object lacks.
Absent == [t |-> "absent"]

JsonNull == [t |-> "null"]

IsPlausibleValues ==
    {Absent, [t |-> "bool", v |-> TRUE], [t |-> "bool", v |-> FALSE],
     [t |-> "str", v |-> "maybe"]}

ReasonValues == {Absent, [t |-> "str", v |-> "looks high"]}

AdjustmentValues ==
    {Absent, JsonNull, [t |-> "num", v |-> 0], [t |-> "num", v |-> 900],
     [t |-> "str", v |-> "900"]}

JsonObjects ==
    [is_plausible : IsPlausibleValues, reason : ReasonValues,
     suggested_adjustment : AdjustmentValues]

\* What the completion call does: it raises (provider unavailable, timeout),
\* or returns a message whose content is empty (None or ""), text that is
\* not JSON, a JSON object inside code fences, a JSON array, or a bare JSON
\* object.
OracleOutcomes ==
    {[kind |-> "raise"], [kind |-> "empty"], [kind |-> "garbage"],
     [kind |-> "array"]}
    \cup [kind : {"object", "fenced"}, object : JsonObjects]

\* The outcomes drawn: a bare object lacks its reason only together with
\* is_plausible, and a fenced response holds a full, well-typed object.
OracleChoices ==
    {o \in OracleOutcomes :
        /\ o.kind = "object" =>
              (o.object.reason = Absent => o.object.is_plausible = Absent)
        /\ o.kind = "fenced" =>
              /\ o.object.is_plausible = [t |-> "bool", v |-> FALSE]
              /\ o.object.reason # Absent
              /\ o.object.suggested_adjustment \in {JsonNull, [t |-> "num", v |-> 900]}}

EmptyObject ==
    [is_plausible |-> Absent, reason |-> Absent, suggested_adjustment |-> Absent]

\* content = response.choices[0].message.content or "{}"; json.loads(content):
\* [raised, isdict, value]
json_loads(o) ==
    IF o.kind = "empty" THEN [raised |-> "none", isdict |-> TRUE, value |-> EmptyObject]
    ELSE IF o.kind = "object" THEN [raised |-> "none", isdict |-> TRUE, value |-> o.object]
    ELSE IF o.kind = "array" THEN [raised |-> "none", isdict |-> FALSE, value |-> EmptyObject]
    ELSE [raised |-> "JSONDecodeError", isdict |-> FALSE, value |-> EmptyObject]

\* dict.get(key, default)
Get(d, key, default) == IF d[key].t = "absent" THEN default ELSE d[key]

\* Python truthiness of a JSON value
ValueTruthy(x) ==
    IF x.t \in {"absent", "null"} THEN FALSE
    ELSE IF x.t = "bool" THEN x.v
    ELSE IF x.t = "num" THEN x.v # 0
    ELSE x.v # ""

\* d[key] = value on a dict held as a record
Put(d, key, value) ==
    [k \in DOMAIN d \cup {key} |-> IF k = key THEN value ELSE d[k]]

\* the except branch: the check is skipped
CheckSkipped(f) ==
    Put(f, "llm_sanity_check",
        [is_plausible |-> [t |-> "bool", v |-> TRUE],
         reason |-> [t |-> "str", v |-> "Check skipped due to error"]])

ApplyAdjustmentMovesBounds(f, result) ==
    IF ValueTruthy(Get(result, "suggested_adjustment", JsonNull))
    THEN Put(Put(Put(f, "predicted_amount", result.suggested_adjustment),
                 "adjusted", TRUE),
             "confidence_upper", f.confidence_upper + 1)
    ELSE f

\* if result.get("suggested_adjustment"): overwrite and mark adjusted
ApplyAdjustment(f, result) ==
    IF ValueTruthy(Get(result, "suggested_adjustment", JsonNull))
    THEN Put(Put(f, "predicted_amount", result.suggested_adjustment),
             "adjusted", TRUE)
    ELSE f

\* sanity_check_forecast from the completion's outcome o on: the forecast
\* dict it returns.  Every exception of the try block is caught.
sanity_check_forecast(f, o) ==
    IF o.kind = "raise" THEN CheckSkipped(f)
    ELSE LET parsed == json_loads(o) IN
         IF parsed.raised # "none" \/ ~parsed.isdict THEN CheckSkipped(f)
         ELSE LET result == parsed.value IN
              Put(ApplyAdjustment(f, result), "llm_sanity_check",
                  [is_plausible |-> Get(result, "is_plausible",
                                        [t |-> "bool", v |-> TRUE]),
                   reason |-> Get(result, "reason",
                                  [t |-> "str", v |-> "No issues detected"])])

\* generate_forecast's metadata, added after the review returned
AddMetadata(f, ts, cat) ==
    Put(Put(Put(f, "generated_at", "utcnow"), "input_transactions", Len(ts)),
        "category_filter", cat)

-----------------------------------------------------------------------------
(* The forecast pipeline as a state machine *)

\* The alert engine is not running.
AlertIdle ==
    /\ apc = "idle"
    /\ spending = 0
    /\ budget_limit = 0
    /\ budget_pct = 110
    /\ threshold = 5000
    /\ service = [twilio |-> None, resend |-> None]
    /\ decision = Null
    /\ config = Null
    /\ alert = Null
    /\ results = <<>>
    /\ calls = <<>>
    /\ returned = Null
    /\ raised = "none"

ForecastInit ==
    /\ entry \in {"generate_forecast", "stages"}
    /\ transactions \in TxLists
    /\ category_filter \in CategoryFilters
    /\ months_ahead \in MonthsAheadValues
    /\ fpc = IF entry = "stages" THEN "aggregate" ELSE "convert"
    /\ txs = IF entry = "stages" THEN transactions ELSE <<>>
    /\ df = <<>>
    /\ forecast = Null
    /\ engine_forecast = Null
    /\ history_summary = Null
    /\ oracle = Null
    /\ stages = <<>>
    /\ fraised = "none"
    /\ AlertIdle
    /\ CategorizerIdle
    /\ ParserIdle
    /\ EndpointIdle

\* generate_forecast: convert the dicts to Transaction objects
Convert ==
    /\ fpc = "convert"
    /\ LET r == ConvertRecords(transactions)
       IN  /\ txs' = r.value
           /\ fraised' = r.raised
           /\ fpc' = IF r.raised = "none" THEN "aggregate" ELSE "failed"
    /\ stages' = Append(stages, "convert")
    /\ UNCHANGED <<entry, transactions, category_filter, months_ahead, df,
                   forecast, engine_forecast, history_summary, oracle>>
    /\ UNCHANGED <<alertVars, categorizerVars, parserVars, endpointVars>>

\* df = prepare_prophet_data(txs, category)
PrepareProphetData ==
    /\ fpc = "aggregate"
    /\ LET r == prepare_prophet_data(txs, category_filter)
       IN  /\ df' = r.value
           /\ fraised' = r.raised
           /\ fpc' = IF r.raised = "none" THEN "fit" ELSE "failed"
    /\ stages' = Append(stages, "aggregate")
    /\ UNCHANGED <<entry, transactions, category_filter, months_ahead, txs,
                   forecast, engine_forecast, history_summary, oracle>>
    /\ UNCHANGED <<alertVars, categorizerVars, parserVars, endpointVars>>

\* periods = months_ahead * 30; forecast = forecast_with_prophet(df, ...)
ForecastWithProphet ==
    /\ fpc = "fit"
    /\ \E yhat \in Predictions :
          LET r == forecast_with_prophet(df, months_ahead * 30, category_filter, yhat)
          IN  /\ forecast' = r.value
              /\ engine_forecast' = r.value
              /\ fraised' = r.raised
              /\ fpc' = IF r.raised = "none" THEN "summary" ELSE "failed"
    /\ stages' = Append(stages, "fit")
    /\ UNCHANGED <<entry, transactions, category_filter, months_ahead, txs, df,
                   history_summary, oracle>>
    /\ UNCHANGED <<alertVars, categorizerVars, parserVars, endpointVars>>

\* history_summary = calculate_history_summary(txs, category)
CalculateHistorySummary ==
    /\ fpc = "summary"
    /\ history_summary' = calculate_history_summary(txs, category_filter)
    /\ fpc' = "review"
    /\ stages' = Append(stages, "summary")
    /\ UNCHANGED <<entry, transactions, category_filter, months_ahead, txs, df,
                   forecast, engine_forecast, oracle, fraised>>
    /\ UNCHANGED <<alertVars, categorizerVars, parserVars, endpointVars>>

\* sanity_check_forecast: build the prompt and await the completion
SanityCheckCall ==
    /\ fpc = "review"
    /\ oracle' = [prompt |-> [history_summary |-> history_summary,
                              forecast_amount |-> forecast.predicted_amount,
                              category |-> forecast.category,
                              date |-> forecast.forecast_date],
                  outcome |-> Null]
    /\ fpc' = "await_oracle"
    /\ stages' = Append(stages, "review")
    /\ UNCHANGED <<entry, transactions, category_filter, months_ahead, txs, df,
                   forecast, engine_forecast, history_summary, fraised>>
    /\ UNCHANGED <<alertVars, categorizerVars, parserVars, endpointVars>>

\* The completion call ends; sanity_check_forecast returns the forecast and,
\* in generate_forecast, the metadata is added and the forecast returned.
SanityCheckReturn ==
    /\ fpc = "await_oracle"
    /\ \E o \in OracleChoices :
          /\ oracle' = [oracle EXCEPT !.outcome = o]
          /\ forecast' = IF entry = "generate_forecast"
                         THEN AddMetadata(sanity_check_forecast(forecast, o),
                                          transactions, category_filter)
                         ELSE sanity_check_forecast(forecast, o)
    /\ fpc' = "done"
    /\ UNCHANGED <<entry, transactions, category_filter, months_ahead, txs, df,
                   engine_forecast, history_summary, stages, fraised>>
    /\ UNCHANGED <<alertVars, categorizerVars, parserVars, endpointVars>>

ForecastNext ==
    \/ Convert
    \/ PrepareProphetData
    \/ ForecastWithProphet
    \/ CalculateHistorySummary
    \/ SanityCheckCall
    \/ SanityCheckReturn

SpecForecast == ForecastInit /\ [][ForecastNext]_vars

-----------------------------------------------------------------------------
(* Properties of the plausibility review and of generate_forecast *)

Reviewed == fpc = "done"

Skipped ==
    [is_plausible |-> [t |-> "bool", v |-> TRUE],
     reason |-> [t |-> "str", v |-> "Check skipped due to error"]]

\* The object has the declared shape {is_plausible: bool, reason: string,
\* suggested_adjustment: number | null}; a missing key is tolerated.
DeclaredShape(obj) ==
    /\ obj.is_plausible.t \in {"absent", "bool"}
    /\ obj.reason.t \in {"absent", "str"}
    /\ obj.suggested_adjustment.t \in {"absent", "null", "num"}

\* The review failed: the call raised, or the response is not JSON, not a
\* JSON object, or an object that has not the declared shape.
ReviewFailed(o) ==
    \/ o.kind \in {"raise", "garbage", "array"}
    \/ o.kind = "object" /\ ~DeclaredShape(o.object)

\* C7: sanity_check_forecast never raises; on any failure of the review it
\* returns the forecast with plausibility {is_plausible: true, reason:
\* "Check skipped due to error"} and with predicted_amount and the adjusted
\* flag as the forecast engine produced them.
C7_FailureSkipsCheck ==
    /\ (fpc \in {"await_oracle", "done"}) => fraised = "none"
    /\ (Reviewed /\ ReviewFailed(oracle.outcome)) =>
          /\ forecast.llm_sanity_check = Skipped
          /\ forecast.predicted_amount = engine_forecast.predicted_amount
          /\ "adjusted" \notin DOMAIN forecast

\* The response parsed to a dict: an object, or empty content read as "{}".
ParsedObject(o) ==
    IF o.kind = "object" THEN o.object ELSE EmptyObject

\* C8: a suggested_adjustment that is present and non-null, whatever number
\* it is, overwrites predicted_amount and sets adjusted = true; an absent or
\* null one leaves predicted_amount alone and adjusted unset.
C8_AdjustmentOverwrites ==
    (Reviewed /\ oracle.outcome.kind \in {"object", "empty"}) =>
        LET adj == ParsedObject(oracle.outcome).suggested_adjustment IN
        /\ adj.t = "num" =>
              /\ forecast.predicted_amount = adj
              /\ "adjusted" \in DOMAIN forecast
              /\ forecast.adjusted = TRUE
        /\ adj.t \in {"absent", "null"} =>
              /\ forecast.predicted_amount = engine_forecast.predicted_amount
              /\ "adjusted" \notin DOMAIN forecast

ReviewFrame ==
    {"confidence_lower", "confidence_upper", "forecast_date", "category",
     "trend", "weekly_seasonality", "yearly_seasonality"}

\* C9: the review changes only predicted_amount, adjusted and the
\* plausibility record: the confidence bounds, forecast_date, category and
\* the trend / weekly / yearly components are as before it, on the override
\* path, the no-override path and the failure path.
C9_ReviewFrame ==
    Reviewed =>
        /\ \A k \in ReviewFrame : forecast[k] = engine_forecast[k]
        /\ \A k \in DOMAIN engine_forecast \ {"predicted_amount"} :
              forecast[k] = engine_forecast[k]
        /\ entry = "stages" =>
              DOMAIN forecast \subseteq
                  DOMAIN engine_forecast \cup {"adjusted", "llm_sanity_check"}
        /\ "llm_sanity_check" \in DOMAIN forecast

\* The override path: the oracle's 900 replaced the engine's 1200.
C9_Witness ==
    /\ Reviewed
    /\ oracle.outcome.kind = "object"
    /\ "adjusted" \in DOMAIN forecast
    /\ engine_forecast.predicted_amount = [t |-> "num", v |-> 1200]
    /\ forecast.predicted_amount = [t |-> "num", v |-> 900]
    /\ forecast.confidence_upper = 1500

\* Transactions that pass the category and income filters
Usable(ts, cat) ==
    {i \in 1..Len(ts) :
        /\ ~ts[i].is_income
        /\ (cat \in {None, ""} \/ ts[i].category = cat)}

\* Aggregation succeeds: some transaction passes the filters.
AggregationSucceeds == Usable(transactions, category_filter) # {}

\* The model fit succeeds: the daily series has at least two days.
FitSucceeds ==
    Cardinality({transactions[i].date.day : i \in Usable(transactions, category_filter)}) >= 2

IsPrefix(s, u) == Len(s) <= Len(u) /\ \A i \in 1..Len(s) : s[i] = u[i]

\* C10: generate_forecast runs record conversion, aggregation, model fit,
\* history summary and plausibility review in this order and, for every
\* list of records on which aggregation and the model fit succeed, returns
\* a forecast carrying a plausibility record, whatever the oracle does.
C10_ForecastReturned ==
    entry = "generate_forecast" =>
        /\ IsPrefix(stages, <<"convert", "aggregate", "fit", "summary", "review">>)
        /\ (AggregationSucceeds /\ FitSucceeds) =>
              /\ fpc # "failed"
              /\ fpc = "done" => "llm_sanity_check" \in DOMAIN forecast

-----------------------------------------------------------------------------
(* Transaction categorizer: backend/app/categorizer.py *)

MaxBatch == 2

MaxConcurrentDefault == 10

MaxConcurrentValues == {1, 2}

\* Category.all()
Categories ==
    {"Groceries", "Dining", "Transport", "Utilities", "Shopping",
     "Entertainment", "Health", "Subscriptions", "Income", "Savings", "Other"}

\* The batch of n TransactionCreate objects.
BatchOf(n) ==
    [i \in 1..n |->
        [description |-> IF i % 2 = 1 THEN "Swiggy order" ELSE "Uber trip",
         amount |-> 450]]

Batches == {BatchOf(n) : n \in 0..MaxBatch}

\* The completion's text is a sequence of tokens: a code-fence marker
\* (three backticks), the language tag "json", whitespace, text that is not
\* JSON, or a JSON value.
FenceToken == [t |-> "fence"]

TagToken == [t |-> "tag"]

WsToken == [t |-> "ws"]

TextToken == [t |-> "text"]

JsonArray == [t |-> "array"]

\* JSON objects the model may answer with; confidence is in hundredths.
CatObjects ==
    {[t |-> "object", category |-> [t |-> "str", v |-> "Dining"],
      confidence |-> [t |-> "num", v |-> 95]],
     [t |-> "object", category |-> [t |-> "str", v |-> "Food"],
      confidence |-> Absent],
     [t |-> "object", category |-> Absent,
      confidence |-> [t |-> "num", v |-> 95]],
     [t |-> "object", category |-> [t |-> "str", v |-> "Dining"],
      confidence |-> [t |-> "str", v |-> "high"]]}

GoodObject ==
    [t |-> "object", category |-> [t |-> "str", v |-> "Dining"],
     confidence |-> [t |-> "num", v |-> 95]]

\* The texts drawn: a bare object; an object inside ```json fences, inside
\* plain fences, and inside fences with whitespace around them; the empty
\* text, a blank text, text that is not JSON and a JSON array.
Contents ==
    {<<obj>> : obj \in CatObjects}
    \cup {<<FenceToken, TagToken, WsToken, GoodObject, WsToken, FenceToken>>,
          <<FenceToken, WsToken, GoodObject, WsToken, FenceToken>>,
          <<WsToken, FenceToken, TagToken, WsToken, GoodObject, WsToken,
            FenceToken, WsToken>>}
    \cup {<<>>, <<WsToken>>, <<TextToken>>, <<JsonArray>>}

\* The measured processing time, in milliseconds.
ElapsedMs == {12}

\* What happens to one unit: an exception is raised in the coroutine outside
\* categorize's try block ("escape"), the completion call raises ("raise"),
\* or it returns a message whose content is None ("no_content") or a text.
CatOutcomes ==
    [kind : {"escape", "raise", "no_content"}, ms : ElapsedMs]
    \cup [kind : {"content"}, content : Contents, ms : ElapsedMs]

RECURSIVE LStrip(_)
LStrip(c) == IF c # <<>> /\ Head(c) = WsToken THEN LStrip(Tail(c)) ELSE c

RECURSIVE RStrip(_)
RStrip(c) ==
    IF c # <<>> /\ c[Len(c)] = WsToken THEN RStrip(SubSeq(c, 1, Len(c) - 1)) ELSE c

\* str.strip()
Strip(c) == RStrip(LStrip(c))

StartsWith(c, prefix) ==
    Len(c) >= Len(prefix) /\ SubSeq(c, 1, Len(prefix)) = prefix

EndsWith(c, suffix) ==
    Len(c) >= Len(suffix) /\ SubSeq(c, Len(c) - Len(suffix) + 1, Len(c)) = suffix

\* Clean markdown code block wrappers if present
CleanContent(c) ==
    LET c1 == Strip(c)
        c2 == IF StartsWith(c1, <<FenceToken, TagToken>>)
              THEN SubSeq(c1, 3, Len(c1)) ELSE c1
        c3 == IF StartsWith(c2, <<FenceToken>>)
              THEN SubSeq(c2, 2, Len(c2)) ELSE c2
        c4 == IF EndsWith(c3, <<FenceToken>>)
              THEN SubSeq(c3, 1, Len(c3) - 1) ELSE c3
    IN  Strip(c4)

EmptyCatObject == [t |-> "object", category |-> Absent, confidence |-> Absent]

\* json.loads on a text: one JSON value, whitespace around it allowed
JsonLoads(c) ==
    LET body == Strip(c) IN
    IF Len(body) = 1 /\ body[1].t \in {"object", "array"}
    THEN [raised |-> "none", value |-> body[1]]
    ELSE [raised |-> "JSONDecodeError", value |-> JsonArray]

\* float(x): [raised, value], the value in hundredths
ToFloat(x) ==
    IF x.t = "num" THEN [raised |-> "none", value |-> x.v]
    ELSE IF x.t = "str" THEN [raised |-> "ValueError", value |-> 0]
    ELSE [raised |-> "TypeError", value |-> 0]

DegradedUncategorized(tx, error, ms) ==
    [description |-> tx.description, category |-> "Unknown", confidence |-> 0,
     error |-> error, processing_time_ms |-> ms]

\* the dict of the two except branches of categorize
Degraded(tx, error, ms) ==
    [description |-> tx.description, category |-> "Other", confidence |-> 0,
     error |-> error, processing_time_ms |-> ms]

categorize_defaults_on_error(tx, o) ==
    IF o.kind = "content" /\ o.content = <<GoodObject>>
    THEN [raised |-> "none",
          value |-> [description |-> tx.description, category |-> "Dining",
                     confidence |-> 95, processing_time_ms |-> o.ms]]
    ELSE [raised |-> "none",
          value |-> [description |-> tx.description, category |-> "Other",
                     confidence |-> 50, processing_time_ms |-> o.ms]]

\* Categorizer.categorize from the completion's outcome o on: [raised, value].
\* Only an exception raised before the try block leaves the coroutine.
categorize(tx, o) ==
    IF o.kind = "escape" THEN [raised |-> "MemoryError", value |-> Null]
    ELSE IF o.kind = "raise"
    THEN [raised |-> "none", value |-> Degraded(tx, "API error", o.ms)]
    ELSE LET content == IF o.kind = "no_content" THEN <<EmptyCatObject>>
                        ELSE IF o.content = <<>> THEN <<EmptyCatObject>>
                        ELSE o.content
             loaded == JsonLoads(CleanContent(content))
         IN  IF loaded.raised # "none"
             THEN [raised |-> "none",
                   value |-> Degraded(tx, "Parse error: JSONDecodeError", o.ms)]
             ELSE IF loaded.value.t # "object"
             THEN [raised |-> "none",
                   value |-> Degraded(tx, "AttributeError", o.ms)]
             ELSE LET result == loaded.value
                      named == Get(result, "category", [t |-> "str", v |-> "Other"])
                      category == IF named.t = "str" /\ named.v \in Categories
                                  THEN named.v ELSE "Other"
                      confidence == ToFloat(Get(result, "confidence",
                                                [t |-> "num", v |-> 50]))
                  IN  IF confidence.raised # "none"
                      THEN [raised |-> "none",
                            value |-> Degraded(tx, confidence.raised, o.ms)]
                      ELSE [raised |-> "none",
                            value |-> [description |-> tx.description,
                                       category |-> category,
                                       confidence |-> confidence.value,
                                       processing_time_ms |-> o.ms]]

CanAcquireUnbounded(sem) == TRUE

\* async with semaphore: the coroutine goes on when the value is positive
CanAcquire(sem) == sem > 0

ReleaseNothing(sem) == sem

\* leaving `async with semaphore`, normally or by an exception
Release(sem) == sem + 1

GatherInCompletionOrder(g, i, r) ==
    LET free == {k \in 1..Len(g) : g[k] = Null}
        k == CHOOSE x \in free : \A y \in free : x <= y
    IN  [g EXCEPT ![k] = r]

\* asyncio.gather(*tasks, return_exceptions=True): the result (or the
\* exception) of the i-th awaitable is the i-th element of the list
Gather(g, i, r) == [g EXCEPT ![i] = r]

\* the loop over enumerate(results) that builds `processed`
ProcessResults(ts, g) ==
    [i \in 1..Len(g) |->
        IF g[i].raised # "none"
        THEN [description |-> ts[i].description, category |-> "Other",
              confidence |-> 0, error |-> g[i].raised,
              processing_time_ms |-> 0]
        ELSE g[i].value]

-----------------------------------------------------------------------------
(* categorize_batch as a state machine *)

CategorizerInit ==
    /\ cpc = "call"
    /\ batch \in Batches
    /\ max_concurrent \in MaxConcurrentValues \cup {MaxConcurrentDefault}
    /\ semaphore = 0
    /\ unit = <<>>
    /\ gathered = <<>>
    /\ processed = <<>>
    /\ craised = "none"
    /\ AlertIdle
    /\ ForecastIdle
    /\ ParserIdle
    /\ EndpointIdle

\* semaphore = asyncio.Semaphore(max_concurrent); one coroutine per
\* transaction is handed to asyncio.gather.
CategorizeBatchCall ==
    /\ cpc = "call"
    /\ semaphore' = max_concurrent
    /\ unit' = [i \in 1..Len(batch) |->
                   [state |-> "created", outcome |-> Null, finished |-> 0]]
    /\ gathered' = [i \in 1..Len(batch) |-> Null]
    /\ cpc' = "gather"
    /\ UNCHANGED <<batch, max_concurrent, processed, craised>>
    /\ UNCHANGED <<alertVars, forecastVars, parserVars, endpointVars>>

\* A coroutine enters the semaphore and starts its categorize call.
UnitAcquire ==
    /\ cpc = "gather"
    /\ \E i \in 1..Len(unit) :
          /\ unit[i].state = "created"
          /\ CanAcquire(semaphore)
          /\ semaphore' = semaphore - 1
          /\ unit' = [unit EXCEPT ![i].state = "calling"]
    /\ UNCHANGED <<cpc, batch, max_concurrent, gathered, processed, craised>>
    /\ UNCHANGED <<alertVars, forecastVars, parserVars, endpointVars>>

\* A categorize call ends: the coroutine leaves the semaphore and gather
\* stores what it returned or raised.
UnitComplete ==
    /\ cpc = "gather"
    /\ \E i \in 1..Len(unit) :
          /\ unit[i].state = "calling"
          /\ \E o \in CatOutcomes :
                /\ gathered' = Gather(gathered, i, categorize(batch[i], o))
                /\ unit' = [unit EXCEPT ![i] =
                              [state |-> "finished", outcome |-> o,
                               finished |-> 1 + Cardinality(
                                   {j \in 1..Len(unit) : unit[j].state = "finished"})]]
          /\ semaphore' = Release(semaphore)
    /\ UNCHANGED <<cpc, batch, max_concurrent, processed, craised>>
    /\ UNCHANGED <<alertVars, forecastVars, parserVars, endpointVars>>

\* Every awaitable is done: gather returns and the list is post-processed.
GatherReturn ==
    /\ cpc = "gather"
    /\ \A i \in 1..Len(unit) : unit[i].state = "finished"
    /\ cpc' = "done"
    /\ processed' = ProcessResults(batch, gathered)
    /\ UNCHANGED <<batch, max_concurrent, semaphore, unit, gathered, craised>>
    /\ UNCHANGED <<alertVars, forecastVars, parserVars, endpointVars>>

CategorizerNext ==
    \/ CategorizeBatchCall
    \/ UnitAcquire
    \/ UnitComplete
    \/ GatherReturn

SpecCategorize == CategorizerInit /\ [][CategorizerNext]_vars

\* The event loop runs a coroutine that can go on, and every completion
\* call returns or fails in the end.  (Every step of categorize_batch
\* changes cpc or unit.)
FairSpecCategorize ==
    SpecCategorize /\ WF_<<cpc, unit, semaphore>>(CategorizerNext)

-----------------------------------------------------------------------------
(* CSV parser: backend/app/parser.py, column detection *)

MaxHeaders == 3

\* Column names of a data frame.
Headers ==
    {"date", "Date", "DATE", "Txn Date", "timestamp", "Payee", "memo",
     "Value", "Amount", "Notes"}

\* str.lower() on the column names
Lower(h) ==
    CASE h = "Date" -> "date"
      [] h = "DATE" -> "date"
      [] h = "Txn Date" -> "txn date"
      [] h = "Payee" -> "payee"
      [] h = "Value" -> "value"
      [] h = "Amount" -> "amount"
      [] h = "Notes" -> "notes"
      [] OTHER -> h

Fields == <<"date", "description", "amount">>

\* COLUMN_PATTERNS: the lower-case names each anchored pattern matches
ColumnPatterns ==
    [date |-> {"date", "txn_date", "transaction_date", "posted_date", "time",
               "datetime", "timestamp"},
     description |-> {"description", "desc", "payee", "merchant", "narrative",
                      "details", "particulars", "transaction_type", "memo"},
     amount |-> {"amount", "value", "sum", "txn_amount", "debit", "credit",
                 "paid", "received"}]

\* The column lists drawn: no name occurs twice (read_csv renames repeats).
ColumnLists ==
    {c \in UNION {[1..n -> Headers] : n \in 1..MaxHeaders} :
        \A i, j \in 1..Len(c) : c[i] = c[j] => i = j}

RECURSIVE DfCols(_)
\* df_cols = {c.lower(): c for c in df.columns}: a key keeps the place of
\* its first insertion and takes the value of its last
DfCols(cols) ==
    IF cols = <<>> THEN <<>>
    ELSE LET before == DfCols(SubSeq(cols, 1, Len(cols) - 1))
             c == cols[Len(cols)]
         IN  IF \E k \in 1..Len(before) : before[k].key = Lower(c)
             THEN [k \in 1..Len(before) |->
                      IF before[k].key = Lower(c)
                      THEN [key |-> Lower(c), val |-> c] ELSE before[k]]
             ELSE Append(before, [key |-> Lower(c), val |-> c])

\* detect_columns: the dict field -> original column name
detect_columns(cols) ==
    LET df_cols == DfCols(cols)
        hits(f) == {k \in 1..Len(df_cols) : df_cols[k].key \in ColumnPatterns[f]}
        found == {Fields[n] : n \in {m \in 1..Len(Fields) : hits(Fields[m]) # {}}}
    IN  [f \in found |-> df_cols[MinOf(hits(f))].val]

-----------------------------------------------------------------------------
(* CSV parser: parse_amount *)

MaxAmountLen == 4

\* A text is a sequence of characters.
Digits == {"0", "1", "2", "3", "4", "5", "6", "7", "8", "9"}

DigitValue(c) ==
    CASE c = "0" -> 0 [] c = "1" -> 1 [] c = "2" -> 2 [] c = "3" -> 3
      [] c = "4" -> 4 [] c = "5" -> 5 [] c = "6" -> 6 [] c = "7" -> 7
      [] c = "8" -> 8 [] c = "9" -> 9

\* the character class [₹$€£,\s] of the substitution
Stripped == {"₹", "$", "€", "£", ",", " "}

AmountAlphabet == {"5", ".", ",", "-", "(", ")", "n", "a"}

\* The texts of the specification's examples.
ExampleTexts ==
    {<<"₹", "1", ",", "2", "3", "4", ".", "5", "6">>,
     <<"(", "5", "0", "0", ".", "0", "0", ")">>,
     <<"-", "5", "0", "0", ".", "0", "0">>,
     <<"1", "2", ".", "3", "4", "5">>,
     <<" ", "-", "0", ".", "5", "0", " ">>,
     <<" ", " ", " ">>,
     <<"n", "o", "t", "-", "a", "-", "n", "u", "m", "b", "e", "r">>}

AmountTexts ==
    UNION {[1..n -> AmountAlphabet] : n \in 0..MaxAmountLen} \cup ExampleTexts

\* A numeric cell (int or float): a finite number num / 10^scale with its
\* sign, or the float NaN of a missing value.
AmountNumbers ==
    [kind : {"finite"}, neg : BOOLEAN, num : {0, 45000, 12345}, scale : {2, 3}]
    \cup {[kind |-> "nan"]}

AmountValues ==
    {[t |-> "num", n |-> x] : x \in AmountNumbers}
    \cup {[t |-> "str", s |-> x] : x \in AmountTexts}

RECURSIVE Remove(_, _)
\* re.sub(r"[...]", "", s)
Remove(s, class) ==
    IF s = <<>> THEN <<>>
    ELSE IF Head(s) \in class THEN Remove(Tail(s), class)
    ELSE <<Head(s)>> \o Remove(Tail(s), class)

RECURSIVE DigitsValue(_)
DigitsValue(s) ==
    IF s = <<>> THEN 0
    ELSE 10 * DigitsValue(SubSeq(s, 1, Len(s) - 1)) + DigitValue(s[Len(s)])

RECURSIVE Normal(_)
\* the shortest decimal of a finite number: no trailing zero in the fraction
Normal(x) ==
    IF x.scale > 0 /\ x.num % 10 = 0
    THEN Normal([x EXCEPT !.num = x.num \div 10, !.scale = x.scale - 1])
    ELSE x

\* float(s) for a text without whitespace: an optional sign, then "nan",
\* "inf", or decimal digits with at most one point.  [raised, value]
\* (No exponent, underscore or upper-case letter occurs in the texts drawn.)
ToFloatText(s) ==
    LET signed == s # <<>> /\ Head(s) \in {"-", "+"}
        body == IF signed THEN Tail(s) ELSE s
        neg == signed /\ Head(s) = "-"
        points == {k \in 1..Len(body) : body[k] = "."}
        digits == Remove(body, {"."})
    IN  IF body = <<"n", "a", "n">>
        THEN [raised |-> "none", value |-> [kind |-> "nan"]]
        ELSE IF body = <<"i", "n", "f">>
        THEN [raised |-> "none", value |-> [kind |-> "inf", neg |-> neg]]
        ELSE IF /\ digits # <<>>
                /\ \A k \in 1..Len(digits) : digits[k] \in Digits
                /\ Cardinality(points) <= 1
        THEN [raised |-> "none",
              value |-> [kind |-> "finite", neg |-> neg,
                         num |-> DigitsValue(digits),
                         scale |-> IF points = {} THEN 0
                                   ELSE Len(body) - MinOf(points)]]
        ELSE [raised |-> "ValueError", value |-> [kind |-> "nan"]]

DecimalKeepsSign(x) == IF x.kind = "finite" THEN Normal(x) ELSE x

\* Decimal(str(abs(x))) of a float x
DecimalOfAbs(x) ==
    IF x.kind = "finite" THEN Normal([x EXCEPT !.neg = FALSE])
    ELSE IF x.kind = "inf" THEN [x EXCEPT !.neg = FALSE]
    ELSE x

\* CSVParser.parse_amount: [raised, value]
parse_amount(v) ==
    IF v.t = "num" THEN [raised |-> "none", value |-> DecimalOfAbs(v.n)]
    ELSE LET cleaned == Remove(v.s, Stripped)
             unwrapped == IF Len(cleaned) >= 2 /\ Head(cleaned) = "("
                             /\ cleaned[Len(cleaned)] = ")"
                          THEN <<"-">> \o SubSeq(cleaned, 2, Len(cleaned) - 1)
                          ELSE cleaned
             f == ToFloatText(unwrapped)
         IN  IF f.raised # "none"
             THEN [raised |-> "ValueError: Cannot parse amount", value |-> Null]
             ELSE [raised |-> "none", value |-> DecimalOfAbs(f.value)]

-----------------------------------------------------------------------------
(* CSV parser: rows, parse and parse_with_mapping *)

MaxRows == 2

\* date_formats, in the order parse_date tries them
DateFormats ==
    <<"%Y-%m-%d", "%d-%m-%Y", "%m/%d/%Y", "%d/%m/%Y", "%Y/%m/%d",
      "%b %d, %Y", "%B %d, %Y", "%d %b %Y", "%d %B %Y">>

\* A date cell holds a text: fmt is the first of the fixed formats it
\* matches, "flexible" when only pandas' parser reads it, "none" when
\* nothing does.
DateCells ==
    {[t |-> "date", fmt |-> "%d-%m-%Y", day |-> 15],
     [t |-> "date", fmt |-> "none", day |-> 0]}

\* An amount cell is a number (NaN when the field is empty) or a text.
AmountCells ==
    {[t |-> "num", n |-> [kind |-> "finite", neg |-> TRUE, num |-> 45000, scale |-> 2]],
     [t |-> "num", n |-> [kind |-> "nan"]],
     [t |-> "str", s |-> <<"(", "5", "0", "0", ".", "0", "0", ")">>],
     [t |-> "str", s |-> <<"n", "/", "a">>]}

\* A text of a description is a sequence of words and blanks; n is the
\* number of characters of a word.
Blank == [w |-> " ", n |-> 1]

RECURSIVE TextLen(_)
\* len(text)
TextLen(s) == IF s = <<>> THEN 0 ELSE Head(s).n + TextLen(Tail(s))

\* A description cell: a text, or NaN when the field is empty.
DescCells ==
    {[t |-> "desc", text |-> <<Blank, [w |-> "Uber", n |-> 4], Blank, Blank,
                               [w |-> "trip", n |-> 4], Blank>>],
     [t |-> "desc", text |-> <<Blank, Blank>>],
     [t |-> "desc", text |-> <<[w |-> "A", n |-> 600]>>],
     [t |-> "nan"]}

\* df.columns.str.strip()
StripName(h) == IF h = "Amount " THEN "Amount" ELSE h

\* the cells a column of this name holds
CellsOf(name) ==
    IF Lower(StripName(name)) \in ColumnPatterns.date \cup {"txn date"}
    THEN DateCells
    ELSE IF Lower(StripName(name)) \in ColumnPatterns.amount THEN AmountCells
    ELSE IF name = "memo" THEN DescCells
    ELSE {c \in DescCells : c.t = "desc" => TextLen(c.text) <= 500}

RowsOf(cols) ==
    UNION {[1..n -> {r \in [1..Len(cols) -> DateCells \cup AmountCells \cup DescCells] :
                        \A j \in 1..Len(cols) : r[j] \in CellsOf(cols[j])}]
           : n \in 0..MaxRows}

\* The column lists of the CSV texts given to parse.
ParseColumnLists ==
    {<<"Date", "memo", "Amount ">>, <<"date", "Value">>,
     <<"Txn Date", "Payee", "Value">>, <<"Payee">>, <<"Date", "Notes">>}

\* The column mappings given to parse_with_mapping.
Mappings ==
    {[date |-> "Txn Date", description |-> "Payee", amount |-> "Value"],
     [date |-> "Txn Date", amount |-> "Value"],
     [date |-> "Posted", amount |-> "Value"],
     [date |-> "Txn Date", description |-> "Payee"]}

\* row[name]: [raised, value]
Cell(cols, row, name) ==
    IF \E j \in 1..Len(cols) : cols[j] = name
    THEN [raised |-> "none",
          value |-> row[CHOOSE j \in 1..Len(cols) : cols[j] = name]]
    ELSE [raised |-> "KeyError", value |-> [t |-> "nan"]]

parse_date_lenient(cell) == [raised |-> "none", value |-> cell.day]

\* parse_date on a cell's text: [raised, value]
parse_date(cell) ==
    IF \E k \in 1..Len(DateFormats) : DateFormats[k] = cell.fmt
    THEN [raised |-> "none", value |-> cell.day]
    ELSE IF cell.fmt = "flexible" THEN [raised |-> "none", value |-> cell.day]
    ELSE [raised |-> "ValueError: Cannot parse date", value |-> 0]

PlaceholderZeroBased(row_index) ==
    <<[w |-> "Transaction", n |-> 11], Blank,
      [w |-> "{}", n |-> 1, i |-> row_index - 1]>>

\* f"Transaction {row_index}"
Placeholder(row_index) ==
    <<[w |-> "Transaction", n |-> 11], Blank, [w |-> "{}", n |-> 1, i |-> row_index]>>

RECURSIVE Collapse(_)
\* re.sub(r"\s+", " ", desc): a run of blanks becomes one blank
Collapse(s) ==
    IF Len(s) < 2 THEN s
    ELSE IF Head(s) = Blank /\ s[2] = Blank THEN Collapse(Tail(s))
    ELSE <<Head(s)>> \o Collapse(Tail(s))

RECURSIVE Truncate(_, _)
\* desc[:k]
Truncate(s, k) ==
    IF s = <<>> \/ k = 0 THEN <<>>
    ELSE IF Head(s).n <= k THEN <<Head(s)>> \o Truncate(Tail(s), k - Head(s).n)
    ELSE <<[Head(s) EXCEPT !.n = k]>>

StripBlanks(s) ==
    LET kept == {k \in 1..Len(s) : s[k] # Blank} IN
    IF kept = {} THEN <<>> ELSE SubSeq(s, MinOf(kept), MaxOf(kept))

\* clean_description on a cell, or on the text of a default
clean_description(cell) ==
    IF cell.t = "nan" THEN <<[w |-> "Unknown", n |-> 7]>>
    ELSE Truncate(Collapse(StripBlanks(cell.text)), 500)

\* TransactionCreate(...): pydantic's ValidationError is a ValueError
TransactionCreate(date_val, description, amt) ==
    IF TextLen(description) < 1 \/ TextLen(description) > 500
    THEN [raised |-> "ValidationError: description", value |-> Null]
    ELSE IF amt.kind # "finite"
    THEN [raised |-> "ValidationError: amount is not finite", value |-> Null]
    ELSE IF amt.scale > 2
    THEN [raised |-> "ValidationError: amount decimal_places", value |-> Null]
    ELSE [raised |-> "none",
          value |-> [date |-> date_val, description |-> description,
                     amount |-> amt, category |-> None, is_income |-> FALSE,
                     source |-> "csv"]]

\* The body of the try block of one row, given the description the row
\* gets: [raised, value]
BuildTransaction(date_cell, amount_cell, description) ==
    IF date_cell.raised # "none" THEN [raised |-> date_cell.raised, value |-> Null]
    ELSE LET date_val == parse_date(date_cell.value) IN
         IF date_val.raised # "none" THEN [raised |-> date_val.raised, value |-> Null]
         ELSE IF amount_cell.raised # "none"
         THEN [raised |-> amount_cell.raised, value |-> Null]
         ELSE LET amt == parse_amount(amount_cell.value) IN
              IF amt.raised # "none" THEN [raised |-> amt.raised, value |-> Null]
              ELSE TransactionCreate(date_val.value, description, amt.value)

\* one iteration of the loop of parse, for the row at position i (0-based)
parse_row(cols, cmap, row, i) ==
    BuildTransaction(Cell(cols, row, cmap.date), Cell(cols, row, cmap.amount),
                     IF "description" \in DOMAIN cmap
                     THEN clean_description(Cell(cols, row, cmap.description).value)
                     ELSE Placeholder(i + 1))

mapping_row_no_default(cols, cmap, row, i) ==
    BuildTransaction(Cell(cols, row, cmap.date), Cell(cols, row, cmap.amount),
                     IF "description" \in DOMAIN cmap
                     THEN clean_description(Cell(cols, row, cmap.description).value)
                     ELSE <<>>)

\* one iteration of the loop of parse_with_mapping: row.get(name, default)
mapping_row(cols, cmap, row, i) ==
    LET named == IF "description" \in DOMAIN cmap
                 THEN Cell(cols, row, cmap.description)
                 ELSE [raised |-> "KeyError", value |-> [t |-> "nan"]]
    IN  BuildTransaction(Cell(cols, row, cmap.date), Cell(cols, row, cmap.amount),
                         IF named.raised = "none"
                         THEN clean_description(named.value)
                         ELSE clean_description(
                                  [t |-> "desc", text |-> Placeholder(i + 1)]))

-----------------------------------------------------------------------------
(* The CSVParser calls as a state machine *)

\* A caller enters one method of a CSVParser: detect_columns on a data
\* frame, parse_amount on a value, parse on a CSV text or
\* parse_with_mapping on a CSV text and a mapping; read_csv gives the
\* columns and rows of the text.
ParserInit ==
    /\ ppc = "begin"
    /\ pentry \in {"detect_columns", "parse_amount", "parse", "parse_with_mapping"}
    /\ raw_amount \in (IF pentry = "parse_amount" THEN AmountValues ELSE {Null})
    /\ columns \in (IF pentry = "detect_columns" THEN ColumnLists
                    ELSE IF pentry = "parse" THEN ParseColumnLists
                    ELSE IF pentry = "parse_with_mapping"
                    THEN {<<"Txn Date", "Payee", "Value">>}
                    ELSE {<<>>})
    /\ rows \in (IF pentry \in {"parse", "parse_with_mapping"}
                 THEN RowsOf(columns) ELSE {<<>>})
    /\ mapping \in (IF pentry = "parse_with_mapping" THEN Mappings ELSE {Null})
    /\ parsed_amount = Null
    /\ column_map = Null
    /\ idx = 0
    /\ parsed_txs = <<>>
    /\ errors = <<>>
    /\ preturned = Null
    /\ praised = "none"
    /\ AlertIdle
    /\ ForecastIdle
    /\ CategorizerIdle
    /\ EndpointIdle

\* detect_columns(df)
DetectColumnsCall ==
    /\ ppc = "begin"
    /\ pentry = "detect_columns"
    /\ column_map' = detect_columns(columns)
    /\ ppc' = "done"
    /\ UNCHANGED <<pentry, raw_amount, parsed_amount, columns, rows, mapping,
                   idx, parsed_txs, errors, preturned, praised>>
    /\ UNCHANGED <<alertVars, forecastVars, categorizerVars, endpointVars>>

\* parse_amount(value)
ParseAmountCall ==
    /\ ppc = "begin"
    /\ pentry = "parse_amount"
    /\ LET r == parse_amount(raw_amount)
       IN  /\ parsed_amount' = r.value
           /\ praised' = r.raised
           /\ ppc' = IF r.raised = "none" THEN "done" ELSE "failed"
    /\ UNCHANGED <<pentry, raw_amount, columns, column_map, rows, mapping,
                   idx, parsed_txs, errors, preturned>>
    /\ UNCHANGED <<alertVars, forecastVars, categorizerVars, endpointVars>>

\* parse up to its loop: the column names are stripped, the mapping is
\* detected and the required columns are checked.
ParseBegin ==
    /\ ppc = "begin"
    /\ pentry = "parse"
    /\ LET stripped == [j \in 1..Len(columns) |-> StripName(columns[j])]
           cmap == detect_columns(stripped)
       IN  /\ columns' = stripped
           /\ column_map' = cmap
           /\ IF "date" \notin DOMAIN cmap \/ "amount" \notin DOMAIN cmap
              THEN /\ praised' = "ValueError: Could not detect required columns"
                   /\ ppc' = "failed"
              ELSE /\ praised' = "none"
                   /\ ppc' = "rows"
    /\ UNCHANGED <<pentry, raw_amount, parsed_amount, rows, mapping, idx,
                   parsed_txs, errors, preturned>>
    /\ UNCHANGED <<alertVars, forecastVars, categorizerVars, endpointVars>>

\* One iteration of the loop of parse.
ParseRow ==
    /\ ppc = "rows"
    /\ pentry = "parse"
    /\ idx < Len(rows)
    /\ LET r == parse_row(columns, column_map, rows[idx + 1], idx)
       IN  IF r.raised = "none"
           THEN /\ parsed_txs' = Append(parsed_txs, r.value)
                /\ UNCHANGED errors
           ELSE /\ errors' = Append(errors, [row |-> idx + 1, reason |-> r.raised])
                /\ UNCHANGED parsed_txs
    /\ idx' = idx + 1
    /\ UNCHANGED <<ppc, pentry, raw_amount, parsed_amount, columns, column_map,
                   rows, mapping, preturned, praised>>
    /\ UNCHANGED <<alertVars, forecastVars, categorizerVars, endpointVars>>

\* After the loop of parse: no transaction is an error, else they are
\* returned.
ParseEnd ==
    /\ ppc = "rows"
    /\ pentry = "parse"
    /\ idx = Len(rows)
    /\ IF parsed_txs = <<>>
       THEN /\ praised' = "ValueError: No valid transactions found"
            /\ ppc' = "failed"
            /\ UNCHANGED preturned
       ELSE /\ preturned' = parsed_txs
            /\ ppc' = "done"
            /\ UNCHANGED praised
    /\ UNCHANGED <<pentry, raw_amount, parsed_amount, columns, column_map, rows,
                   mapping, idx, parsed_txs, errors>>
    /\ UNCHANGED <<alertVars, forecastVars, categorizerVars, endpointVars>>

\* parse_with_mapping up to its loop: the mapping is validated.
MappingBegin ==
    /\ ppc = "begin"
    /\ pentry = "parse_with_mapping"
    /\ IF {"date", "amount"} \ DOMAIN mapping # {}
       THEN /\ praised' = "ValueError: Missing required columns"
            /\ ppc' = "failed"
       ELSE /\ praised' = "none"
            /\ ppc' = "rows"
    /\ UNCHANGED <<pentry, raw_amount, parsed_amount, columns, column_map, rows,
                   mapping, idx, parsed_txs, errors, preturned>>
    /\ UNCHANGED <<alertVars, forecastVars, categorizerVars, endpointVars>>

\* One iteration of the loop of parse_with_mapping.
MappingRow ==
    /\ ppc = "rows"
    /\ pentry = "parse_with_mapping"
    /\ idx < Len(rows)
    /\ LET r == mapping_row(columns, mapping, rows[idx + 1], idx)
       IN  parsed_txs' = IF r.raised = "none" THEN Append(parsed_txs, r.value)
                         ELSE parsed_txs
    /\ idx' = idx + 1
    /\ UNCHANGED <<ppc, pentry, raw_amount, parsed_amount, columns, column_map,
                   rows, mapping, errors, preturned, praised>>
    /\ UNCHANGED <<alertVars, forecastVars, categorizerVars, endpointVars>>

\* return transactions
MappingEnd ==
    /\ ppc = "rows"
    /\ pentry = "parse_with_mapping"
    /\ idx = Len(rows)
    /\ preturned' = parsed_txs
    /\ ppc' = "done"
    /\ UNCHANGED <<pentry, raw_amount, parsed_amount, columns, column_map, rows,
                   mapping, idx, parsed_txs, errors, praised>>
    /\ UNCHANGED <<alertVars, forecastVars, categorizerVars, endpointVars>>

ParserNext ==
    \/ DetectColumnsCall
    \/ ParseAmountCall
    \/ ParseBegin
    \/ ParseRow
    \/ ParseEnd
    \/ MappingBegin
    \/ MappingRow
    \/ MappingEnd

SpecParser == ParserInit /\ [][ParserNext]_vars

-----------------------------------------------------------------------------
(* The alert check of a user: check_alerts in backend/app/main.py *)

MaxBudgets == 2

\* rows of the budgets table
BudgetRows == [category : TxCategories, monthly_limit : {0, 5000}]

\* rows of the users table: the alert settings of a user
UserRows ==
    {[budget_pct |-> 110, alert_threshold |-> 5000, sms_enabled |-> FALSE,
      email_enabled |-> TRUE, phone |-> None, email |-> "user@example.com"],
     [budget_pct |-> 110, alert_threshold |-> 5000, sms_enabled |-> TRUE,
      email_enabled |-> TRUE, phone |-> "+919876543210",
      email |-> "user@example.com"]}

\* the transaction rows of a user
UserTxLists ==
    {<<>>,
     <<[category |-> "Groceries", is_income |-> FALSE, amount |-> 9000]>>,
     <<[category |-> "Groceries", is_income |-> FALSE, amount |-> 3000],
       [category |-> "Groceries", is_income |-> TRUE, amount |-> 50000],
       [category |-> "Dining", is_income |-> FALSE, amount |-> 5600]>>}

\* what an AlertService object has: the attributes __init__ sets and the
\* methods of the class
AlertServiceAttrs ==
    {"twilio", "resend", "build_sms_message", "build_email_content",
     "send_spending_alert"}

\* obj.name on an object with the attributes attrs: [raised]
GetAttr(attrs, name) ==
    [raised |-> IF name \in attrs THEN "none" ELSE "AttributeError"]

RECURSIVE CategorySpending(_, _)
\* the spending of a budget's category: the sum of the amounts of the
\* rows of that category that are not income
CategorySpending(rs, cat) ==
    IF rs = <<>> THEN 0
    ELSE (IF Head(rs).category = cat /\ ~Head(rs).is_income
          THEN Head(rs).amount ELSE 0) + CategorySpending(Tail(rs), cat)

\* One iteration of the loop of check_alerts, the providers doing sms and
\* email: [raised, decision, results]
check_budget(budget, sms, email) ==
    LET spend == CategorySpending(user_txs, budget.category)
        method == GetAttr(AlertServiceAttrs, "check_spending_alert")
        alert_check == check_spending_alert(spend, budget.monthly_limit,
                                            user.budget_pct, user.alert_threshold)
    IN  IF method.raised # "none"
        THEN [raised |-> method.raised, decision |-> Null, results |-> <<>>]
        ELSE IF alert_check.raised # "none"
        THEN [raised |-> alert_check.raised, decision |-> Null, results |-> <<>>]
        ELSE IF ~alert_check.value.should_alert
        THEN [raised |-> "none", decision |-> alert_check.value, results |-> <<>>]
        ELSE LET a == [category |-> budget.category,
                       current_spending |-> spend,
                       budget_limit |-> budget.monthly_limit,
                       budget_pct_used |-> alert_check.value.pct_used,
                       is_over_budget |-> alert_check.value.over_budget,
                       is_over_threshold |-> alert_check.value.over_threshold,
                       forecast_trend |-> None]
                 cfg == [sms_enabled |-> user.sms_enabled,
                         email_enabled |-> user.email_enabled,
                         phone |-> user.phone, email |-> user.email]
                 s == SmsBlock(cfg, alert_service, a, <<>>, sms)
                 e == EmailBlock(cfg, alert_service, a, s.results, email)
             IN  IF s.raised # "none"
                 THEN [raised |-> s.raised, decision |-> alert_check.value,
                       results |-> <<>>]
                 ELSE [raised |-> e.raised, decision |-> alert_check.value,
                       results |-> IF e.raised = "none" THEN e.results ELSE <<>>]

\* A request for the alert check of a user arrives; the store holds the
\* user's settings, budgets and transactions.
EndpointInit ==
    /\ epc = "begin"
    /\ user \in UserRows
    /\ budgets \in UNION {[1..n -> BudgetRows] : n \in 0..MaxBudgets}
    /\ user_txs \in UserTxLists
    /\ alert_service = Null
    /\ evaluated = <<>>
    /\ alerts_sent = <<>>
    /\ ereturned = Null
    /\ eraised = "none"
    /\ AlertIdle
    /\ ForecastIdle
    /\ CategorizerIdle
    /\ ParserIdle

\* check_alerts up to its loop: the rows are read and the service is
\* created from the environment.
CheckAlertsBegin ==
    /\ epc = "begin"
    /\ alert_service' \in [twilio : Clients, resend : Clients]
    /\ alerts_sent' = <<>>
    /\ epc' = "budgets"
    /\ UNCHANGED <<user, budgets, user_txs, evaluated, ereturned, eraised>>
    /\ UNCHANGED <<alertVars, forecastVars, categorizerVars, parserVars>>

\* One iteration of the loop over the budgets.
CheckAlertsBudget ==
    /\ epc = "budgets"
    /\ Len(evaluated) < Len(budgets)
    /\ \E sms, email \in ProviderOutcomes :
          LET r == check_budget(budgets[Len(evaluated) + 1], sms, email)
          IN  /\ eraised' = r.raised
              /\ epc' = IF r.raised = "none" THEN "budgets" ELSE "failed"
              /\ evaluated' = IF r.raised = "none"
                              THEN Append(evaluated, [decision |-> r.decision,
                                                      results |-> r.results])
                              ELSE evaluated
              /\ alerts_sent' = alerts_sent \o r.results
    /\ UNCHANGED <<user, budgets, user_txs, alert_service, ereturned>>
    /\ UNCHANGED <<alertVars, forecastVars, categorizerVars, parserVars>>

\* return {"alerts_sent": len(alerts_sent), "results": alerts_sent}
CheckAlertsReturn ==
    /\ epc = "budgets"
    /\ Len(evaluated) = Len(budgets)
    /\ ereturned' = [alerts_sent |-> Len(alerts_sent), results |-> alerts_sent]
    /\ epc' = "done"
    /\ UNCHANGED <<user, budgets, user_txs, alert_service, evaluated,
                   alerts_sent, eraised>>
    /\ UNCHANGED <<alertVars, forecastVars, categorizerVars, parserVars>>

EndpointNext ==
    \/ CheckAlertsBegin
    \/ CheckAlertsBudget
    \/ CheckAlertsReturn

SpecCheckAlerts == EndpointInit /\ [][EndpointNext]_vars

-----------------------------------------------------------------------------
(* The whole program *)

Init ==
    AlertInit \/ ForecastInit \/ CategorizerInit \/ ParserInit \/ EndpointInit

Next ==
    AlertNext \/ ForecastNext \/ CategorizerNext \/ ParserNext \/ EndpointNext

Spec == Init /\ [][Next]_vars

-----------------------------------------------------------------------------
(* Properties of the consumers of the completion collaborator *)

\* The same object returned without fences
Unfenced(o) == [kind |-> "object", object |-> o.object]

\* C11: the plausibility review strips code-fence markers before parsing: a
\* JSON object wrapped in code fences gives the forecast that the same
\* object gives without fences, and a parse failure never raises.
C11_FencedAsUnfenced ==
    /\ (fpc \in {"await_oracle", "done"}) => fraised = "none"
    /\ (Reviewed /\ oracle.outcome.kind = "fenced") =>
          forecast = (IF entry = "generate_forecast"
                      THEN AddMetadata(
                               sanity_check_forecast(engine_forecast,
                                                     Unfenced(oracle.outcome)),
                               transactions, category_filter)
                      ELSE sanity_check_forecast(engine_forecast,
                                                 Unfenced(oracle.outcome)))

-----------------------------------------------------------------------------
(* Properties of categorize_batch *)

InFlight == {i \in 1..Len(unit) : unit[i].state = "calling"}

\* C12: at every moment of categorize_batch the number of categorize calls
\* started and not yet finished is at most max_concurrent (10 when the
\* caller gives none), whatever the batch and the order of completions.
C12_BoundedConcurrency ==
    /\ Cardinality(InFlight) <= max_concurrent
    /\ cpc = "gather" => semaphore = max_concurrent - Cardinality(InFlight)
    /\ MaxConcurrentDefault = 10

\* Two transactions under a cap of one: one call is in flight and the other
\* coroutine waits for the semaphore.
C12_Witness ==
    /\ cpc = "gather"
    /\ max_concurrent = 1
    /\ Len(batch) = 2
    /\ Cardinality(InFlight) = 1
    /\ \E i \in 1..Len(unit) : unit[i].state = "created"
    /\ semaphore = 0

\* C13: categorize_batch returns one result per input transaction, and the
\* result at position i is the one of the transaction at position i, in
\* whatever order the calls completed.
C13_OrderPreserved ==
    cpc = "done" =>
        /\ Len(processed) = Len(batch)
        /\ \A i \in 1..Len(batch) :
              /\ processed[i].description = batch[i].description
              /\ processed[i] =
                    ProcessResults(<<batch[i]>>,
                                   <<categorize(batch[i], unit[i].outcome)>>)[1]

\* The second call completed first, with another outcome than the first.
C13_Witness ==
    /\ cpc = "done"
    /\ Len(batch) = 2
    /\ unit[2].finished = 1
    /\ unit[1].finished = 2
    /\ unit[1].outcome.kind = "content"
    /\ unit[2].outcome.kind = "raise"
    /\ processed[1].category = "Dining"
    /\ processed[2].category = "Other"

\* The unit failed: an exception left the coroutine, the completion call
\* raised, or the text is not JSON.
UnitFailed(o) ==
    \/ o.kind \in {"escape", "raise"}
    \/ o.kind = "content" /\ o.content # <<>>
          /\ JsonLoads(CleanContent(o.content)).raised # "none"

\* C14: a failed unit yields that item's degraded result (category "Other",
\* confidence 0.0, an error text); every unit still runs to its end, the
\* results of the other units are the ones their own completions give, and
\* categorize_batch does not raise.
C14_FailureIsolated ==
    /\ craised = "none"
    /\ cpc # "failed"
    /\ cpc = "done" =>
          \A i \in 1..Len(batch) :
              /\ unit[i].state = "finished"
              /\ UnitFailed(unit[i].outcome) =>
                    /\ processed[i].description = batch[i].description
                    /\ processed[i].category = "Other"
                    /\ processed[i].confidence = 0
                    /\ "error" \in DOMAIN processed[i]
              /\ unit[i].outcome = [kind |-> "content", content |-> <<GoodObject>>,
                                    ms |-> unit[i].outcome.ms] =>
                    processed[i] = [description |-> batch[i].description,
                                    category |-> "Dining", confidence |-> 95,
                                    processing_time_ms |-> unit[i].outcome.ms]

\* The first unit's completion call raised; the second unit's result is the
\* one its own answer gives.
C14_Witness ==
    /\ cpc = "done"
    /\ Len(batch) = 2
    /\ unit[1].outcome.kind = "raise"
    /\ unit[2].outcome.kind = "content"
    /\ unit[2].outcome.content = <<GoodObject>>
    /\ processed[1].confidence = 0
    /\ processed[1].error = "API error"
    /\ processed[2].confidence = 95

-----------------------------------------------------------------------------
(* Properties of the CSV parser *)

\* Some column's name, in lower case, is a synonym of the field.
HasSynonym(f) == \E j \in 1..Len(columns) : Lower(columns[j]) \in ColumnPatterns[f]

\* The first column, in column order, whose name is a synonym of the field.
FirstSynonym(f) ==
    columns[MinOf({j \in 1..Len(columns) : Lower(columns[j]) \in ColumnPatterns[f]})]

Detected == pentry = "detect_columns" /\ ppc = "done"

\* C17: detect_columns maps a field exactly when some header is, in any
\* letter case and at any position, one of the field's synonyms, and on the
\* headers ["Txn Date", "Payee", "Value"] it maps date, description and
\* amount.
C17_DetectsAlternateHeaders ==
    Detected =>
        /\ \A n \in 1..Len(Fields) :
              Fields[n] \in DOMAIN column_map <=> HasSynonym(Fields[n])
        /\ columns = <<"Txn Date", "Payee", "Value">> =>
              DOMAIN column_map = {"date", "description", "amount"}

\* C18: detect_columns maps each field to the first header, in header
\* order, that matches the field's pattern, also when a later header
\* differs from it only in letter case.
C18_FirstHeaderWins ==
    Detected =>
        \A n \in 1..Len(Fields) :
            Fields[n] \in DOMAIN column_map =>
                column_map[Fields[n]] = FirstSynonym(Fields[n])

AmountCalled == pentry = "parse_amount" /\ ppc \in {"done", "failed"}

TextIs(s) == raw_amount = [t |-> "str", s |-> s]

Magnitude(num, scale) ==
    [kind |-> "finite", neg |-> FALSE, num |-> num, scale |-> scale]

\* The text holds no digit: it is empty, blank or not a number.
NoDigit == raw_amount.t = "str" /\ \A k \in 1..Len(raw_amount.s) : raw_amount.s[k] \notin Digits

\* C19: parse_amount returns the magnitude of every input it accepts, a
\* finite non-negative number ("₹1,234.56" gives 1234.56, "(500.00)" and
\* "-500.00" give 500), and fails on empty, blank and non-numeric input.
C19_AbsoluteMagnitude ==
    AmountCalled =>
        /\ ppc = "done" =>
              /\ parsed_amount.kind = "finite"
              /\ ~parsed_amount.neg
              /\ parsed_amount.num >= 0
        /\ TextIs(<<"₹", "1", ",", "2", "3", "4", ".", "5", "6">>) =>
              ppc = "done" /\ parsed_amount = Magnitude(123456, 2)
        /\ TextIs(<<"(", "5", "0", "0", ".", "0", "0", ")">>) =>
              ppc = "done" /\ parsed_amount = Magnitude(500, 0)
        /\ TextIs(<<"-", "5", "0", "0", ".", "0", "0">>) =>
              ppc = "done" /\ parsed_amount = Magnitude(500, 0)
        /\ NoDigit => ppc = "failed"

-----------------------------------------------------------------------------
(* Properties of parse and parse_with_mapping *)

\* parse is in or past its loop
InRows ==
    /\ pentry = "parse"
    /\ ppc \in {"rows", "done", "failed"}
    /\ "date" \in DOMAIN column_map
    /\ "amount" \in DOMAIN column_map

\* the cell of the row at position i (1-based) in the column mapped to f
MappedCell(i, f) ==
    rows[i][CHOOSE j \in 1..Len(columns) : columns[j] = column_map[f]]

\* The date or the amount of the row cannot be parsed.
Unparsable(i) ==
    \/ MappedCell(i, "date").fmt = "none"
    \/ /\ MappedCell(i, "amount").t = "str"
       /\ \A k \in 1..Len(MappedCell(i, "amount").s) :
             MappedCell(i, "amount").s[k] \notin Digits

ErrorRows == {errors[k].row : k \in 1..Len(errors)}

\* The rows processed so far that gave a transaction, and the k-th of them.
AcceptedRows == (1..idx) \ ErrorRows

Accepted(k) ==
    CHOOSE i \in AcceptedRows : Cardinality({j \in AcceptedRows : j <= i}) = k

C16_SchemaAndPlaceholder ==
    (pentry = "parse" /\ ppc # "begin") =>
        /\ (~HasSynonym("date") \/ ~HasSynonym("amount")) <=>
              praised = "ValueError: Could not detect required columns"
        /\ praised = "ValueError: Could not detect required columns" =>
              /\ ppc = "failed"
              /\ idx = 0
              /\ parsed_txs = <<>>
              /\ errors = <<>>
        /\ (HasSynonym("date") /\ HasSynonym("amount") /\ ~HasSynonym("description")) =>
              \A k \in 1..Len(parsed_txs) :
                  parsed_txs[k].description =
                      <<[w |-> "Transaction", n |-> 11], Blank,
                        [w |-> "{}", n |-> 1, i |-> Accepted(k)]>>

\* No description column; the first row is skipped and the second gets
\* "Transaction 2".
C16_Witness ==
    /\ pentry = "parse"
    /\ ppc = "done"
    /\ columns = <<"date", "Value">>
    /\ ErrorRows = {1}
    /\ Len(preturned) = 1
    /\ preturned[1].description[3].i = 2

\* C20: every transaction parse and parse_with_mapping emit has a
\* non-negative amount, is_income = false and source = "csv", whatever the
\* sign of the ingested amount.
C20_MagnitudeOnly ==
    (pentry \in {"parse", "parse_with_mapping"}) =>
        /\ \A k \in 1..Len(parsed_txs) :
              /\ parsed_txs[k].amount.kind = "finite"
              /\ ~parsed_txs[k].amount.neg
              /\ parsed_txs[k].amount.num >= 0
              /\ parsed_txs[k].is_income = FALSE
              /\ parsed_txs[k].source = "csv"
        /\ ppc = "done" => preturned = parsed_txs

\* parse_with_mapping returned the transaction of a row whose amount is
\* the number -450.00: the amount is 450.
C20_Witness ==
    /\ pentry = "parse_with_mapping"
    /\ ppc = "done"
    /\ Len(rows) = 1
    /\ rows[1][3] = [t |-> "num", n |-> [kind |-> "finite", neg |-> TRUE,
                                         num |-> 45000, scale |-> 2]]
    /\ Len(preturned) = 1
    /\ preturned[1].amount = Magnitude(450, 0)
    /\ ~preturned[1].is_income

-----------------------------------------------------------------------------
(* Properties of parse_with_mapping *)

MappingCalled == pentry = "parse_with_mapping" /\ ppc # "begin"

NamesRequired == {"date", "amount"} \subseteq DOMAIN mapping

\* The CSV text has the column the mapping names for the field.
HasColumn(f) ==
    f \in DOMAIN mapping /\ \E j \in 1..Len(columns) : columns[j] = mapping[f]

\* the cell of the row at position i (1-based) in the column named for f
NamedCell(i, f) ==
    rows[i][CHOOSE j \in 1..Len(columns) : columns[j] = mapping[f]]

\* The row at position i parses: its date is in a known format, its amount
\* is a finite number or a text with digits, and its description, when a
\* column is named for it, is not blank.
RowParses(i) ==
    /\ HasColumn("date")
    /\ NamedCell(i, "date").fmt # "none"
    /\ HasColumn("amount")
    /\ \/ NamedCell(i, "amount").t = "num" /\ NamedCell(i, "amount").n.kind = "finite"
       \/ /\ NamedCell(i, "amount").t = "str"
          /\ \E k \in 1..Len(NamedCell(i, "amount").s) :
                NamedCell(i, "amount").s[k] \in Digits
    /\ HasColumn("description") =>
          \/ NamedCell(i, "description").t = "nan"
          \/ \E k \in 1..Len(NamedCell(i, "description").text) :
                NamedCell(i, "description").text[k] # Blank

ParsingRows == {i \in 1..idx : RowParses(i)}

KthParsing(k) ==
    CHOOSE i \in ParsingRows : Cardinality({j \in ParsingRows : j <= i}) = k

\* the magnitude of an amount cell that parses: a number, or "(500.00)"
CellMagnitude(c) ==
    IF c.t = "num" THEN Normal([c.n EXCEPT !.neg = FALSE]) ELSE Magnitude(500, 0)

\* C21: parse_with_mapping raises exactly when the mapping lacks date or
\* amount, and then before any row; with both named it raises nothing, the
\* transactions collected are those of the rows that parse, one each and in
\* input order, and it returns them, also when there is none.
C21_MappingSkipsSilently ==
    MappingCalled =>
        /\ praised # "none" <=> ~NamesRequired
        /\ ~NamesRequired =>
              /\ ppc = "failed"
              /\ praised = "ValueError: Missing required columns"
              /\ idx = 0
              /\ parsed_txs = <<>>
        /\ NamesRequired =>
              /\ ppc \in {"rows", "done"}
              /\ Len(parsed_txs) = Cardinality(ParsingRows)
              /\ \A k \in 1..Len(parsed_txs) :
                    parsed_txs[k].amount =
                        CellMagnitude(NamedCell(KthParsing(k), "amount"))
              /\ ppc = "done" => idx = Len(rows) /\ preturned = parsed_txs

\* Two rows, neither parses: parse_with_mapping returned the empty list.
C21_Witness ==
    /\ pentry = "parse_with_mapping"
    /\ ppc = "done"
    /\ NamesRequired
    /\ Len(rows) = 2
    /\ ParsingRows = {}
    /\ preturned = <<>>
    /\ praised = "none"

-----------------------------------------------------------------------------
(* Properties of prepare_prophet_data and forecast_with_prophet *)

\* prepare_prophet_data has been called
AggregateCalled == \E k \in 1..Len(stages) : stages[k] = "aggregate"

\* the calendar days of the transactions that pass the filters
FilteredDays == {txs[i].date.day : i \in Usable(txs, category_filter)}

RECURSIVE TotalOf(_)
\* the sum of the amounts of the transactions at the positions I
TotalOf(I) ==
    IF I = {} THEN 0
    ELSE LET i == CHOOSE j \in I : TRUE IN txs[i].amount + TotalOf(I \ {i})

\* C22: for a non-empty filtered set prepare_prophet_data gives one entry
\* for every calendar day from the earliest to the latest observed day, in
\* ascending order; each day's value is the sum of the amounts of the
\* filtered transactions of that calendar day, whatever their time of day,
\* and zero for a day without one.  Days 1 and 3 give 3 entries, the second
\* of them zero.
C22_DailySeries ==
    (AggregateCalled /\ FilteredDays # {}) =>
        /\ fraised \notin {"ValueError: No transactions found for forecasting"}
        /\ Len(df) = MaxOf(FilteredDays) - MinOf(FilteredDays) + 1
        /\ \A i \in 1..Len(df) :
              /\ df[i].ds = MinOf(FilteredDays) + i - 1
              /\ df[i].y = TotalOf({j \in Usable(txs, category_filter) :
                                       txs[j].date.day = df[i].ds})
              /\ df[i].ds \notin FilteredDays => df[i].y = 0
        /\ FilteredDays = {1, 3} => Len(df) = 3 /\ df[2].y = 0

\* One transaction on day 1 at 18:00 and one on day 3 at 00:00: three
\* entries, 250 on day 1, zero on day 2 and 100 on day 3.
C22_Witness ==
    /\ AggregateCalled
    /\ FilteredDays = {1, 3}
    /\ \E i \in Usable(txs, category_filter) : txs[i].date = [day |-> 1, hour |-> 18]
    /\ Len(df) = 3
    /\ df[1].y = 250
    /\ df[2].y = 0
    /\ df[3].y = 100

NoData == "ValueError: No transactions found for forecasting"

RECURSIVE SeriesTotal(_)
\* the sum of the values of a daily series
SeriesTotal(series) ==
    IF series = <<>> THEN 0 ELSE Head(series).y + SeriesTotal(Tail(series))

\* C23: the series of prepare_prophet_data counts the non-income
\* transactions (of the given category, when one is given) and no other;
\* when none passes the filters (an empty list, income only, a category no
\* transaction has) the call fails with the no-data error, no series is
\* produced and neither the model fit nor the plausibility review starts.
C23_NoDataError ==
    /\ AggregateCalled =>
          /\ fraised = NoData <=> Usable(txs, category_filter) = {}
          /\ fraised # NoData =>
                SeriesTotal(df) = TotalOf(Usable(txs, category_filter))
          /\ fraised = NoData =>
                /\ fpc = "failed"
                /\ df = <<>>
                /\ forecast = Null
                /\ oracle = Null
    /\ Usable(transactions, category_filter) = {} =>
          \A k \in 1..Len(stages) : stages[k] \notin {"fit", "summary", "review"}

\* Dining transactions only and the category filter Groceries: the
\* aggregation failed with the no-data error.
C23_Witness ==
    /\ AggregateCalled
    /\ Len(txs) = 2
    /\ \A i \in 1..Len(txs) : txs[i].category = "Dining" /\ ~txs[i].is_income
    /\ category_filter = "Groceries"
    /\ fpc = "failed"
    /\ fraised = NoData
    /\ df = <<>>

\* forecast_with_prophet returned a forecast
Fitted == engine_forecast # Null

\* C24: the horizon is months_ahead * 30 days after the last observed day,
\* and the forecast date, the predicted amount, the confidence bounds and
\* the components are those of the last day of the horizon, the day the
\* prediction reaches its final value; the review leaves the date as it is.
C24_FinalDayOfHorizon ==
    Fitted =>
        /\ engine_forecast.forecast_date = MaxOf(FilteredDays) + months_ahead * 30
        /\ engine_forecast.predicted_amount.v \in Predictions
        /\ engine_forecast.confidence_lower = engine_forecast.predicted_amount.v - 300
        /\ engine_forecast.confidence_upper = engine_forecast.predicted_amount.v + 300
        /\ engine_forecast.trend = engine_forecast.predicted_amount.v - 20
        /\ forecast.forecast_date = engine_forecast.forecast_date

\* Twelve months ahead of a history that ends on day 3: the forecast is
\* that of day 363.
C24_Witness ==
    /\ Fitted
    /\ months_ahead = 12
    /\ MaxOf(FilteredDays) = 3
    /\ engine_forecast.forecast_date = 363
    /\ engine_forecast.predicted_amount.v = 1200

-----------------------------------------------------------------------------
(* Properties of the alert check *)

RECURSIVE TotalAmount(_)
\* the sum of the amounts of the transaction rows at the positions I
TotalAmount(I) ==
    IF I = {} THEN 0
    ELSE LET i == CHOOSE j \in I : TRUE IN user_txs[i].amount + TotalAmount(I \ {i})

\* the spending of the category of the k-th budget
SpendingOf(k) ==
    TotalAmount({i \in 1..Len(user_txs) :
                    /\ user_txs[i].category = budgets[k].category
                    /\ ~user_txs[i].is_income})

\* The decision for the k-th budget is to alert: over the budget
\* percentage or at the threshold.
ShouldAlert(k) ==
    \/ /\ budgets[k].monthly_limit > 0
       /\ SpendingOf(k) * 100 >= user.budget_pct * budgets[k].monthly_limit
    \/ SpendingOf(k) >= user.alert_threshold

RECURSIVE Concatenated(_)
\* the results of the budgets handled, in budget order
Concatenated(es) ==
    IF es = <<>> THEN <<>> ELSE Head(es).results \o Concatenated(Tail(es))

\* C25: the alert check evaluates every budget of the list against the
\* non-income spending of its category, dispatches for the budgets whose
\* decision is to alert and for no other, and returns the per-channel
\* results in budget order with alerts_sent their number.
C25_ChecksEveryBudget ==
    epc \in {"done", "failed"} =>
        /\ epc = "done"
        /\ eraised = "none"
        /\ Len(evaluated) = Len(budgets)
        /\ \A k \in 1..Len(evaluated) :
              /\ evaluated[k].decision.should_alert <=> ShouldAlert(k)
              /\ ~ShouldAlert(k) => evaluated[k].results = <<>>
              /\ \A n \in 1..Len(evaluated[k].results) :
                    evaluated[k].results[n].channel \in {"sms", "email"}
        /\ ereturned.results = Concatenated(evaluated)
        /\ ereturned.alerts_sent = Len(ereturned.results)

-----------------------------------------------------------------------------
(* Properties of the categories of the results *)

\* The answer is a JSON object, bare, that names a category outside the
\* list or names none.
NamesNoListed(o) ==
    /\ o.kind = "content"
    /\ Len(o.content) = 1
    /\ o.content[1].t = "object"
    /\ \/ o.content[1].category = Absent
       \/ o.content[1].category.v \notin
             {"Groceries", "Dining", "Transport", "Utilities", "Shopping",
              "Entertainment", "Health", "Subscriptions", "Income", "Savings",
              "Other"}

\* the dict a unit gave has a category of the list, and "Other" when the
\* unit failed or its answer names no category of the list
ListedCategory(r, o) ==
    /\ r.category \in {"Groceries", "Dining", "Transport", "Utilities",
                       "Shopping", "Entertainment", "Health", "Subscriptions",
                       "Income", "Savings", "Other"}
    /\ (NamesNoListed(o) \/ UnitFailed(o)) => r.category = "Other"

\* C26: every dict categorize returns and every element of the list
\* categorize_batch returns has a category of the fixed list; it is "Other"
\* for an answer naming a category outside the list, for an answer naming
\* none and on every failure path.
C26_CategoryInList ==
    /\ \A i \in 1..Len(gathered) :
          (gathered[i] # Null /\ gathered[i].raised = "none") =>
              ListedCategory(gathered[i].value, unit[i].outcome)
    /\ cpc = "done" =>
          \A i \in 1..Len(processed) : ListedCategory(processed[i], unit[i].outcome)

\* The first answer names "Food", the second names no category and the
\* batch has returned "Other" for both, without an error.
C26_Witness ==
    /\ cpc = "done"
    /\ Len(batch) = 2
    /\ unit[1].outcome.kind = "content"
    /\ unit[1].outcome.content =
          <<[t |-> "object", category |-> [t |-> "str", v |-> "Food"],
             confidence |-> Absent]>>
    /\ unit[2].outcome.kind = "content"
    /\ unit[2].outcome.content =
          <<[t |-> "object", category |-> Absent,
             confidence |-> [t |-> "num", v |-> 95]]>>
    /\ processed[1].category = "Other"
    /\ processed[2].category = "Other"
    /\ "error" \notin DOMAIN processed[1]

-----------------------------------------------------------------------------
(* Properties of the flags of an alerting decision *)

Alerting == Evaluated /\ decision.should_alert

\* C27 as stated: an alerting decision has over_budget or over_threshold.
C27_AlertHasFlag ==
    Alerting => (decision.over_budget \/ decision.over_threshold)

\* C27 (amended): an alerting decision has over_budget, over_threshold or
\* pct_used >= 125; with budget_pct at most 125 it has one of the two
\* flags, and a decision with neither flag is high or critical.
C27_AlertHasFlagOrTier ==
    Alerting =>
        /\ decision.over_budget \/ decision.over_threshold \/ UsedAtLeast(125)
        /\ budget_pct <= 125 => (decision.over_budget \/ decision.over_threshold)
        /\ (~decision.over_budget /\ ~decision.over_threshold) =>
              decision.priority \in {"high", "critical"}

\* (8000, 5000, 200, 10000): 160 % of the budget is critical, below the
\* budget percentage 200 and below the threshold.
C27_Witness ==
    /\ Alerting
    /\ InputsAre(8000, 5000, 200, 10000)
    /\ decision.priority = "critical"
    /\ ~decision.over_budget
    /\ ~decision.over_threshold

\* C28 as stated: in an alerting decision over_budget is true exactly when
\* the returned pct_used, rounded to one decimal place, is >= budget_pct.
C28_FlagAgreesWithReported ==
    Alerting => (decision.over_budget <=> decision.pct_used >= 10 * budget_pct)

\* C28 (amended): in an alerting decision over_budget is true exactly when
\* the percentage before rounding is >= budget_pct; then the returned
\* pct_used is >= budget_pct too, and the returned value reaches budget_pct
\* without the flag only when rounding lifted it there, from at most 0.05
\* below.
C28_FlagAgreesWithUnrounded ==
    Alerting =>
        /\ decision.over_budget <=> UsedAtLeast(budget_pct)
        /\ decision.over_budget => decision.pct_used >= 10 * budget_pct
        /\ (decision.pct_used >= 10 * budget_pct /\ ~decision.over_budget) =>
              /\ budget_limit > 0
              /\ decision.pct_used = 10 * budget_pct
              /\ spending * 100 < budget_pct * budget_limit
              /\ 2 * (budget_pct * budget_limit - spending * 100) * 10 <= budget_limit

\* (5498, 5000, 110, 5000): 109.96 % is reported as 110.0 and is not over
\* the budget percentage 110; the alert is the threshold's.
C28_Witness ==
    /\ Alerting
    /\ InputsAre(5498, 5000, 110, 5000)
    /\ decision.pct_used = 1100
    /\ ~decision.over_budget
    /\ decision.priority = "low"

-----------------------------------------------------------------------------
(* Properties of the rows parse keeps *)

\* C29: every row parse has processed whose date and amount both parse
\* gave a transaction, whatever its description and whatever the model
\* validation makes of the amount.
C29_NoRowDroppedForDescription ==
    InRows => \A i \in 1..idx : ~Unparsable(i) => i \in AcceptedRows

-----------------------------------------------------------------------------
(* Termination of categorize_batch *)

\* The slots of the semaphore are all accounted for: the free ones and
\* those of the units inside it.
SlotsConserved ==
    cpc \in {"gather", "done"} =>
        semaphore + Cardinality(InFlight) = max_concurrent

\* The unit at position i waits to enter the semaphore.
Waiting(i) == cpc = "gather" /\ i <= Len(unit) /\ unit[i].state = "created"

\* C30: no unit keeps its slot once it has finished, also when it failed;
\* every unit that waits for a slot gets to run; and categorize_batch
\* returns, with every unit finished and every slot free.
C30_BatchTerminates ==
    /\ []SlotsConserved
    /\ \A i \in 1..(MaxBatch + 1) : Waiting(i) ~> ~Waiting(i)
    /\ <>(cpc = "done")
    /\ [](cpc = "done" =>
            /\ semaphore = max_concurrent
            /\ \A i \in 1..Len(unit) : unit[i].state = "finished")

\* Two units and one slot: the first unit's call failed, the second ran
\* after it, and the batch has returned with the slot free.
C30_Witness ==
    /\ cpc = "done"
    /\ Len(batch) = 2
    /\ max_concurrent = 1
    /\ unit[1].outcome.kind = "raise"
    /\ unit[1].finished = 1
    /\ unit[2].finished = 2
    /\ semaphore = 1

====
